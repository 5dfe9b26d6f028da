-------------------------- MODULE ConnectionProofs --------------------------
(***************************************************************************)
(* Proofs about the two layers of the connection between controller and    *)
(* server: ControllerClient (its type invariant and its safety invariants, *)
(* for any number of writes in the air) and MessageStream with WireFormat  *)
(* (every message is read as it was sent, for any messages, lists, names   *)
(* and sizes of the socket buffers; that a stream is a MessageChannel).    *)
(***************************************************************************)
EXTENDS ControllerClient, MessageStream, SequenceLemmas, SequenceTheorems, FiniteSetTheorems, TLAPS

Reads == {"header", "data"}
Transfers == {"header", "data", "write"}

-----------------------------------------------------------------------------
(* The queue of handlers.                                                  *)

(* Which handlers are queued, by their places in the queue.                *)
LEMMA Places ==
    ASSUME ready \in Seq(Completion), NEW S
    PROVE  /\ Queued(S) \in SUBSET (1..Len(ready))
           /\ \A k \in Queued(S) : ready[k] \in Completion /\ ready[k].op \in S
           /\ ready # << >> => (1 \in Queued(S) <=> Head(ready).op \in S)
           /\ ready = << >> => Queued(S) = {}
    BY DEF Queued

(* The handler at the head of the queue runs and leaves a behind it.       *)
LEMMA Shifted ==
    ASSUME ready \in Seq(Completion), ready # << >>, NEW a \in Seq(Completion),
           ready' = Tail(ready) \o a, NEW S
    PROVE  /\ ready' \in Seq(Completion)
           /\ \A k \in Queued(S) : k # 1 => k - 1 \in Queued(S)' /\ ready'[k - 1] = ready[k]
           /\ \A i \in DOMAIN a : a[i].op \in S =>
                 Len(ready) - 1 + i \in Queued(S)' /\ ready'[Len(ready) - 1 + i] = a[i]
           /\ \A k \in Queued(S)' :
                 \/ k + 1 \in Queued(S) /\ ready'[k] = ready[k + 1]
                 \/ \E i \in DOMAIN a : /\ a[i].op \in S
                                        /\ k = Len(ready) - 1 + i /\ ready'[k] = a[i]
<1>1. /\ Tail(ready) \in Seq(Completion) /\ Len(Tail(ready)) = Len(ready) - 1
      /\ \A i \in 1..Len(ready) - 1 : Tail(ready)[i] = ready[i + 1]
      /\ Len(ready) \in Nat \ {0} /\ Len(a) \in Nat
    BY HeadTailProperties
<1>2. /\ ready' \in Seq(Completion) /\ Len(ready') = Len(ready) - 1 + Len(a)
      /\ \A i \in 1..Len(ready) - 1 + Len(a) :
            ready'[i] = IF i <= Len(ready) - 1 THEN Tail(ready)[i] ELSE a[i - (Len(ready) - 1)]
    BY <1>1, ConcatProperties
<1>3. DOMAIN a = 1..Len(a) /\ DOMAIN ready = 1..Len(ready) /\ DOMAIN ready' = 1..Len(ready')
    BY <1>2
<1>4. ASSUME NEW k \in Queued(S), k # 1
      PROVE  k - 1 \in Queued(S)' /\ ready'[k - 1] = ready[k]
    <2>1. k \in 2..Len(ready) /\ ready[k].op \in S
        BY <1>1, <1>3, <1>4 DEF Queued
    <2>2. k - 1 \in 1..Len(ready) - 1 + Len(a) /\ k - 1 <= Len(ready) - 1 /\ (k - 1) + 1 = k
        BY <1>1, <2>1
    <2>3. ready'[k - 1] = ready[k]
        BY <1>1, <1>2, <2>1, <2>2
    <2>4. QED BY <1>2, <1>3, <2>1, <2>2, <2>3 DEF Queued
<1>5. ASSUME NEW i \in DOMAIN a, a[i].op \in S
      PROVE  Len(ready) - 1 + i \in Queued(S)' /\ ready'[Len(ready) - 1 + i] = a[i]
    <2>1. /\ Len(ready) - 1 + i \in 1..Len(ready) - 1 + Len(a)
          /\ ~(Len(ready) - 1 + i <= Len(ready) - 1)
          /\ (Len(ready) - 1 + i) - (Len(ready) - 1) = i
        BY <1>1, <1>3
    <2>2. ready'[Len(ready) - 1 + i] = a[i]
        BY <1>2, <2>1
    <2>3. QED BY <1>2, <1>3, <1>5, <2>1, <2>2 DEF Queued
<1>6. ASSUME NEW k \in Queued(S)'
      PROVE  \/ k + 1 \in Queued(S) /\ ready'[k] = ready[k + 1]
             \/ \E i \in DOMAIN a : a[i].op \in S /\ k = Len(ready) - 1 + i /\ ready'[k] = a[i]
    <2>1. k \in 1..Len(ready) - 1 + Len(a) /\ ready'[k].op \in S
        BY <1>2, <1>3 DEF Queued
    <2>2. CASE k <= Len(ready) - 1
        <3>1. k + 1 \in 1..Len(ready) /\ ready'[k] = ready[k + 1]
            BY <1>1, <1>2, <2>1, <2>2
        <3>2. QED BY <1>3, <2>1, <3>1 DEF Queued
    <2>3. CASE ~(k <= Len(ready) - 1)
        <3>1. k - (Len(ready) - 1) \in DOMAIN a /\ ready'[k] = a[k - (Len(ready) - 1)]
            BY <1>1, <1>2, <1>3, <2>1, <2>3
        <3>2. k = Len(ready) - 1 + (k - (Len(ready) - 1))
            BY <1>1, <2>1
        <3>3. QED BY <2>1, <3>1, <3>2
    <2>4. QED BY <2>2, <2>3
<1>7. QED BY <1>2, <1>4, <1>5, <1>6

(* The handler at the head of the queue runs.                              *)
LEMMA Popped ==
    ASSUME ready \in Seq(Completion), ready # << >>, ready' = Tail(ready), NEW S
    PROVE  /\ ready' \in Seq(Completion)
           /\ \A k \in Queued(S) : k # 1 => k - 1 \in Queued(S)' /\ ready'[k - 1] = ready[k]
           /\ \A k \in Queued(S)' : k + 1 \in Queued(S) /\ ready'[k] = ready[k + 1]
<1>1. << >> \in Seq(Completion) /\ DOMAIN << >> = {}
    OBVIOUS
<1>2. Tail(ready) \in Seq(Completion)
    BY HeadTailProperties
<1>3. Tail(ready) = Tail(ready) \o << >>
    BY <1>2, ConcatEmptySeq
<1> DEFINE a == << >>
<1>4. ready' = Tail(ready) \o a /\ a \in Seq(Completion) /\ DOMAIN a = {}
    BY <1>1, <1>3
<1> HIDE DEF a
<1>5. QED BY <1>4, Shifted

(* The handler at the head of the queue runs and queues a completion.      *)
LEMMA PoppedAndQueued ==
    ASSUME ready \in Seq(Completion), ready # << >>, NEW c \in Completion,
           ready' = Append(Tail(ready), c), NEW S
    PROVE  /\ ready' \in Seq(Completion)
           /\ \A k \in Queued(S) : k # 1 => k - 1 \in Queued(S)' /\ ready'[k - 1] = ready[k]
           /\ c.op \in S => Len(ready) \in Queued(S)' /\ ready'[Len(ready)] = c
           /\ \A k \in Queued(S)' : \/ k + 1 \in Queued(S) /\ ready'[k] = ready[k + 1]
                                    \/ c.op \in S /\ k = Len(ready) /\ ready'[k] = c
<1>1. /\ Tail(ready) \in Seq(Completion) /\ Len(Tail(ready)) = Len(ready) - 1
      /\ \A i \in 1..Len(ready) - 1 : Tail(ready)[i] = ready[i + 1]
      /\ Len(ready) \in Nat \ {0}
    BY HeadTailProperties
<1>2. /\ ready' \in Seq(Completion) /\ Len(ready') = Len(ready)
      /\ \A i \in 1..Len(ready) - 1 : ready'[i] = ready[i + 1]
      /\ ready'[Len(ready)] = c
    BY <1>1, AppendProperties
<1>3. DOMAIN ready = 1..Len(ready) /\ DOMAIN ready' = 1..Len(ready)
    BY <1>2
<1>4. ASSUME NEW k \in Queued(S), k # 1
      PROVE  k - 1 \in Queued(S)' /\ ready'[k - 1] = ready[k]
    <2>1. k - 1 \in 1..Len(ready) - 1 /\ (k - 1) + 1 = k /\ ready[k].op \in S
        BY <1>1, <1>3, <1>4 DEF Queued
    <2>2. ready'[k - 1] = ready[k]
        BY <1>2, <2>1
    <2>3. k - 1 \in DOMAIN ready'
        BY <1>1, <1>3, <2>1
    <2>4. QED BY <2>1, <2>2, <2>3 DEF Queued
<1>5. Len(ready) \in DOMAIN ready'
    BY <1>1, <1>3
<1>6. ASSUME NEW k \in Queued(S)'
      PROVE  \/ k + 1 \in Queued(S) /\ ready'[k] = ready[k + 1]
             \/ c.op \in S /\ k = Len(ready) /\ ready'[k] = c
    <2>1. k \in 1..Len(ready) /\ ready'[k].op \in S
        BY <1>3, <1>6 DEF Queued
    <2>2. CASE k = Len(ready)
        BY <1>2, <2>1, <2>2
    <2>3. CASE k # Len(ready)
        <3>0. k \in 1..Len(ready) - 1 /\ k + 1 \in 1..Len(ready)
            <4>1. Len(ready) \in Nat
                BY <1>1
            <4>2. k \in Int /\ 1 <= k /\ k <= Len(ready)
                BY <2>1, <4>1
            <4>3. QED BY <4>1, <4>2, <2>3
        <3>1. k \in 1..Len(ready) - 1 /\ k + 1 \in DOMAIN ready
            BY <1>3, <3>0
        <3>2. ready'[k] = ready[k + 1] /\ ready[k + 1].op \in S
            BY <1>2, <2>1, <3>1
        <3>3. QED BY <3>1, <3>2 DEF Queued
    <2>4. QED BY <2>2, <2>3
<1>7. QED BY <1>2, <1>4, <1>5, <1>6 DEF Queued

(* A completion is queued.                                                 *)
LEMMA Completes ==
    ASSUME ready \in Seq(Completion), NEW c \in Completion, ready' = Append(ready, c), NEW S
    PROVE  /\ ready' \in Seq(Completion)
           /\ \A k \in Queued(S) : k \in Queued(S)' /\ ready'[k] = ready[k] /\ k < Len(ready) + 1
           /\ c.op \in S => Len(ready) + 1 \in Queued(S)' /\ ready'[Len(ready) + 1] = c
           /\ \A k \in Queued(S)' : \/ k \in Queued(S) /\ ready'[k] = ready[k]
                                    \/ c.op \in S /\ k = Len(ready) + 1 /\ ready'[k] = c
<1>1. /\ ready' \in Seq(Completion) /\ Len(ready') = Len(ready) + 1 /\ Len(ready) \in Nat
      /\ \A i \in 1..Len(ready) : ready'[i] = ready[i]
      /\ ready'[Len(ready) + 1] = c
    BY AppendProperties
<1>2. DOMAIN ready = 1..Len(ready) /\ DOMAIN ready' = 1..Len(ready) + 1
    BY <1>1
<1>3. QED BY <1>1, <1>2 DEF Queued

(* Sequences of one element, and of one element repeated.                  *)
LEMMA OneElement ==
    ASSUME NEW S, NEW c \in S
    PROVE  <<c>> \in Seq(S) /\ Len(<<c>>) = 1 /\ <<c>>[1] = c
    OBVIOUS

LEMMA Repeated ==
    ASSUME NEW S, NEW c \in S, NEW n \in Nat, NEW s, s = [k \in 1..n |-> c]
    PROVE  s \in Seq(S) /\ Len(s) = n /\ \A k \in 1..n : s[k] = c
<1>1. s \in Seq(S)
    OBVIOUS
<1>2. Len(s) = n
    OBVIOUS
<1>3. QED BY <1>1, <1>2

(* What a reset leaves behind in the queue.  An attempt to connect is      *)
(* never outstanding together with a transfer.                             *)
LEMMA AbortedShape ==
    ASSUME TypeOK, ~connect_op \/ (read_op = "none" /\ write_ops = 0)
    PROVE  /\ Aborted \in Seq(Completion)
           /\ \A i \in DOMAIN Aborted : i \in Nat \ {0} /\ Aborted[i].ok = FALSE
           /\ connect_op => DOMAIN Aborted = {1} /\ Aborted[1].op = "connect"
           /\ ~connect_op => \A i \in DOMAIN Aborted : Aborted[i].op \in Transfers
           /\ read_op # "none" => 1 \in DOMAIN Aborted /\ Aborted[1].op = read_op
           /\ \A i \in DOMAIN Aborted : Aborted[i].op \in Reads => i = 1 /\ read_op # "none"
           /\ ~connect_op /\ read_op = "none" /\ write_ops = 0 => DOMAIN Aborted = {}
<1> DEFINE A == IF connect_op THEN <<Completed("connect", FALSE)>> ELSE << >>
           B == IF read_op # "none" THEN <<Completed(read_op, FALSE)>> ELSE << >>
           C == [k \in 1..write_ops |-> Completed("write", FALSE)]
           W == Completed("write", FALSE)
<1>1. /\ connect_op \in BOOLEAN /\ read_op \in {"none", "header", "data"}
      /\ write_ops \in Nat
    BY ControllerClientAssumption DEF TypeOK
<1>2. /\ Completed("connect", FALSE) \in Completion /\ W \in Completion
      /\ read_op # "none" => Completed(read_op, FALSE) \in Completion
    BY <1>1 DEF Completed, Completion
<1>4. Aborted = (A \o B) \o C
    BY DEF Aborted
<1>5. << >> \in Seq(Completion) /\ Len(<< >>) = 0
    OBVIOUS
<1>10. C = [k \in 1..write_ops |-> W]
    OBVIOUS
<1> HIDE DEF C, W
<1>3. C \in Seq(Completion) /\ Len(C) = write_ops /\ \A k \in 1..write_ops : C[k] = W
    BY <1>1, <1>2, <1>10, Repeated
<1>6. CASE connect_op
    <2> DEFINE c == Completed("connect", FALSE)
    <2>1. A = <<c>> /\ B = << >> /\ write_ops = 0
        BY <1>6
    <2>2. C = << >>
        BY <1>3, <2>1, EmptySeq
    <2>3. <<c>> \in Seq(Completion) /\ Len(<<c>>) = 1 /\ <<c>>[1] = c
        BY <1>2, OneElement
    <2>4. Aborted = <<c>>
        BY <1>4, <2>1, <2>2, <2>3, ConcatEmptySeq
    <2>5. c.ok = FALSE /\ c.op = "connect"
        BY DEF Completed
    <2> HIDE DEF c
    <2>6. DOMAIN Aborted = {1} /\ Aborted[1] = c
        BY <2>4
    <2>7. Aborted \in Seq(Completion)
        BY <2>3, <2>4
    <2>8. \A i \in DOMAIN Aborted : i = 1
        BY <2>6
    <2>9. QED BY <1>6, <2>5, <2>6, <2>7, <2>8 DEF Reads
<1>7. CASE ~connect_op /\ read_op # "none"
    <2> DEFINE c == Completed(read_op, FALSE)
               D == <<c>>
    <2>1. D \in Seq(Completion) /\ Len(D) = 1 /\ D[1] = c
        BY <1>2, <1>7, OneElement
    <2>2. Aborted = D \o C
        BY <1>4, <1>7, <2>1, ConcatEmptySeq
    <2>10. c.ok = FALSE /\ c.op = read_op /\ W.ok = FALSE /\ W.op = "write"
        BY DEF Completed, W
    <2> HIDE DEF D, c
    <2>3. /\ Aborted \in Seq(Completion) /\ Len(Aborted) = 1 + write_ops
          /\ \A i \in 1..1 + write_ops : Aborted[i] = IF i <= 1 THEN D[i] ELSE C[i - 1]
        <3>1. C \in Seq(Completion) /\ D \in Seq(Completion)
            BY <1>3, <2>1
        <3>2. /\ D \o C \in Seq(Completion) /\ Len(D \o C) = Len(D) + Len(C)
              /\ \A i \in 1..Len(D) + Len(C) : (D \o C)[i] = IF i <= Len(D) THEN D[i] ELSE C[i - Len(D)]
            BY <3>1, ConcatProperties
        <3>3. Len(D) = 1 /\ Len(C) = write_ops
            BY <1>3, <2>1
        <3>4. QED BY <2>2, <3>2, <3>3
    <2>4. DOMAIN Aborted = 1..1 + write_ops
        BY <2>3
    <2>5. 1 \in DOMAIN Aborted /\ Aborted[1] = c
        BY <1>1, <2>1, <2>3, <2>4
    <2>6. ASSUME NEW i \in DOMAIN Aborted, i # 1 PROVE Aborted[i] = W
        <3>1. i \in 1..1 + write_ops /\ ~(i <= 1) /\ i - 1 \in 1..write_ops
            BY <1>1, <2>4, <2>6
        <3>2. QED BY <1>3, <2>3, <3>1
    <2>8. \A i \in DOMAIN Aborted : i \in Nat \ {0}
        BY <1>1, <2>4
    <2>9. QED BY <1>1, <1>7, <2>3, <2>5, <2>6, <2>10, <2>8 DEF Reads, Transfers
<1>8. CASE ~connect_op /\ read_op = "none"
    <2>1. Aborted = C
        BY <1>3, <1>4, <1>5, <1>8, ConcatEmptySeq
    <2>2. DOMAIN C = 1..write_ops
        BY <1>3
    <2>3. W.ok = FALSE /\ W.op = "write"
        BY DEF Completed, W
    <2>4. QED BY <1>1, <1>3, <1>8, <2>1, <2>2, <2>3 DEF Reads, Transfers
<1>9. QED BY <1>1, <1>6, <1>7, <1>8

-----------------------------------------------------------------------------
(* The invariant.                                                          *)

(* One attempt, one timer, one read, counting the handlers that are queued.*)
OneConnect ==
    /\ attempting_connection <=> connect_op \/ Queued({"connect"}) # {}
    /\ connect_op => Queued({"connect"}) = {}
    /\ \A j, k \in Queued({"connect"}) : j = k

OneTimer ==
    /\ timer_fired <=> timer_op \/ Queued({"timer"}) # {}
    /\ timer_op => Queued({"timer"}) = {}
    /\ \A j, k \in Queued({"timer"}) : j = k

OneRead ==
    /\ read_op # "none" => Queued(Reads) = {}
    /\ \A j, k \in Queued(Reads) : j = k

(* With a connection there is a read and no attempt or timer; without one  *)
(* an attempt or the timer, and nothing outstanding on the socket.         *)
Waiting ==
    /\ connected => /\ ~attempting_connection /\ ~timer_fired
                    /\ read_op # "none" \/ Queued(Reads) # {}
    /\ ~connected => /\ attempting_connection <=> ~timer_fired
                     /\ read_op = "none" /\ write_ops = 0

(* A read of a lost connection is handled before the next attempt is: it   *)
(* stands in front of it, and one that succeeded in front of the timer.    *)
LateReads == ~connected => \A k \in Queued(Reads) :
    /\ \A j \in Queued({"connect"}) : k < j
    /\ ready[k].ok => /\ ~socket_open /\ ~attempting_connection
                      /\ \A j \in Queued({"timer"}) : k < j

(* Unless the loop is late, nothing of the lost connection is queued when  *)
(* the timer expires.                                                      *)
WellTimed ==
    ~overtaken /\ ~connected /\ (attempting_connection \/ Queued({"timer"}) # {}) =>
        Queued(Transfers) = {}

Withdrawn == ~connected /\ shown # Disconnected => \E k \in Queued(Reads) : ~ready[k].ok

IInv ==
    /\ TypeOK
    /\ OneConnect /\ OneTimer /\ OneRead
    /\ Waiting /\ LateReads /\ WellTimed /\ Withdrawn

(* The head of the queue.                                                  *)
LEMMA AtTheHead ==
    ASSUME TypeOK, NEW o, NEW ok, Runs(o, ok)
    PROVE  /\ ready \in Seq(Completion) /\ ready # << >>
           /\ ready[1].op = o /\ ready[1].ok = ok
           /\ \A S : 1 \in Queued(S) <=> o \in S
<1>1. ready \in Seq(Completion) /\ ready # << >> /\ Head(ready) = Completed(o, ok)
    BY DEF TypeOK, Runs
<1>2. 1 \in DOMAIN ready /\ ready[1] = Completed(o, ok)
    BY <1>1
<1>3. ready[1].op = o /\ ready[1].ok = ok
    BY <1>2 DEF Completed
<1>4. QED BY <1>1, <1>2, <1>3 DEF Queued

(* The handlers of the kinds S move up when the one at the head runs, and  *)
(* no other of these kinds is queued.                                      *)
MoveUp(S) ==
    /\ \A k \in Queued(S) : k # 1 => k - 1 \in Queued(S)' /\ ready'[k - 1] = ready[k]
    /\ \A k \in Queued(S)' : k + 1 \in Queued(S) /\ ready'[k] = ready[k + 1]

LEMMA OthersMoveUp ==
    ASSUME ready' \in Seq(Completion), NEW S, MoveUp(S), 1 \notin Queued(S)
    PROVE  /\ Queued(S)' = {} <=> Queued(S) = {}
           /\ (\A j, k \in Queued(S) : j = k) => (\A j, k \in Queued(S)' : j = k)
<1>1. Queued(S)' = {} <=> Queued(S) = {}
    BY DEF MoveUp
<1>2. Queued(S)' \in SUBSET Int
    BY DEF Queued
<1>3. ASSUME \A j, k \in Queued(S) : j = k, NEW j \in Queued(S)', NEW k \in Queued(S)' PROVE j = k
    <2>1. j + 1 = k + 1
        BY <1>3 DEF MoveUp
    <2>2. QED BY <1>2, <1>3, <2>1
<1>4. QED BY <1>1, <1>3

LEMMA TheOnlyOneGoes ==
    ASSUME ready' \in Seq(Completion), NEW S, MoveUp(S), 1 \in Queued(S),
           \A j, k \in Queued(S) : j = k
    PROVE  Queued(S)' = {}
<1>1. \A k \in Queued(S)' : k + 1 \in Queued(S)
    BY DEF MoveUp
<1>2. Queued(S)' \in SUBSET (Nat \ {0})
    BY DEF Queued
<1>3. QED BY <1>1, <1>2

(* What a handler does to the queue that queues nothing itself.            *)
LEMMA AfterPop ==
    ASSUME TypeOK, ready # << >>, ready' = Tail(ready)
    PROVE  ready' \in Seq(Completion) /\ \A S : MoveUp(S)
<1>1. ready \in Seq(Completion)
    BY DEF TypeOK
<1>2. ASSUME NEW S PROVE MoveUp(S)
    <2>1. /\ \A k \in Queued(S) : k # 1 => k - 1 \in Queued(S)' /\ ready'[k - 1] = ready[k]
          /\ \A k \in Queued(S)' : k + 1 \in Queued(S) /\ ready'[k] = ready[k + 1]
        BY <1>1, Popped
    <2>2. QED BY <2>1 DEF MoveUp
<1>3. ready' \in Seq(Completion)
    BY <1>1, HeadTailProperties
<1>4. QED BY <1>2, <1>3

(* What start_read does to it.  The socket of a client that is not         *)
(* connected is not read from.                                             *)
LEMMA AfterStartRead ==
    ASSUME TypeOK, ready # << >>, StartRead,
           read_op = "none", \A k \in Queued(Reads) : k = 1
    PROVE  /\ ready' \in Seq(Completion) /\ read_op' \in {"none", "header"}
           /\ \A S : S \cap Reads = {} => MoveUp(S)
           /\ read_op' # "none" => Queued(Reads)' = {}
           /\ \A j, k \in Queued(Reads)' : j = k /\ ~ready'[j].ok
           /\ read_op' # "none" \/ Queued(Reads)' # {}
           /\ ~socket_open => read_op' = "none" /\ \E k \in Queued(Reads)' : ~ready'[k].ok
<1>1. ready \in Seq(Completion)
    BY DEF TypeOK
<1>2. CASE socket_open
    <2>1. read_op' = "header" /\ ready' = Tail(ready)
        BY <1>2 DEF StartRead
    <2>2. ready' \in Seq(Completion) /\ \A S : MoveUp(S)
        BY <2>1, AfterPop
    <2>3. Queued(Reads)' = {}
        <3>1. Queued(Reads)' \in SUBSET (Nat \ {0})
            BY <2>2 DEF Queued
        <3>2. \A k \in Queued(Reads)' : k + 1 \in Queued(Reads)
            BY <2>2 DEF MoveUp
        <3>3. QED BY <3>1, <3>2
    <2>4. QED BY <1>2, <2>1, <2>2, <2>3
<1>3. CASE ~socket_open
    <2> DEFINE c == Completed("header", FALSE)
    <2>1. c \in Completion /\ c.op = "header" /\ c.op \in Reads /\ c.ok = FALSE
        BY DEF Completed, Completion, Reads
    <2>2. read_op' = "none" /\ ready' = Append(Tail(ready), c)
        BY <1>3 DEF StartRead
    <2> HIDE DEF c
    <2>3. ready' \in Seq(Completion)
        BY <1>1, <2>1, <2>2, PoppedAndQueued
    <2>4. ASSUME NEW S, S \cap Reads = {} PROVE MoveUp(S)
        <3>1. c.op \notin S
            BY <2>1, <2>4
        <3>2. QED BY <1>1, <2>1, <2>2, <3>1, PoppedAndQueued DEF MoveUp
    <2>5. /\ Len(ready) \in Queued(Reads)' /\ ready'[Len(ready)] = c
          /\ \A k \in Queued(Reads)' : k + 1 \in Queued(Reads) \/ k = Len(ready)
        BY <1>1, <2>1, <2>2, PoppedAndQueued
    <2>6. \A k \in Queued(Reads)' : k = Len(ready)
        <3>1. Queued(Reads)' \in SUBSET (Nat \ {0})
            BY <2>3 DEF Queued
        <3>2. QED BY <2>5, <3>1
    <2>7. QED BY <1>3, <2>1, <2>2, <2>3, <2>4, <2>5, <2>6
<1>4. QED BY <1>2, <1>3

-----------------------------------------------------------------------------
(* The steps.                                                              *)
LEMMA ConnectedKeeps ==
    ASSUME IInv, HandleConnected, overtaken' = overtaken
    PROVE  IInv'
<1>1. /\ ready \in Seq(Completion) /\ ready # << >>
      /\ \A S : 1 \in Queued(S) <=> "connect" \in S
    BY AtTheHead DEF IInv, HandleConnected
<1>2. /\ attempting_connection' = FALSE /\ connected' = TRUE
      /\ shown' = [shown EXCEPT !.connection = TRUE] /\ StartRead
      /\ UNCHANGED <<timer_fired, socket_open, connect_op, timer_op, write_ops>>
    BY DEF HandleConnected
<1>3. 1 \in Queued({"connect"}) /\ 1 \notin Queued({"timer"})
    BY <1>1
<1>4. attempting_connection /\ ~connected /\ ~timer_fired /\ ~connect_op /\ read_op = "none"
    BY <1>3 DEF IInv, OneConnect, Waiting
<1>5. Queued(Reads) = {}
    <2>1. \A k \in Queued(Reads) : k < 1
        BY <1>3, <1>4 DEF IInv, LateReads
    <2>2. Queued(Reads) \in SUBSET (Nat \ {0})
        BY <1>1 DEF Queued
    <2>3. QED BY <2>1, <2>2
<1>6. /\ ready' \in Seq(Completion) /\ read_op' \in {"none", "header"}
      /\ \A S : S \cap Reads = {} => MoveUp(S)
      /\ read_op' # "none" => Queued(Reads)' = {}
      /\ \A j, k \in Queued(Reads)' : j = k
      /\ read_op' # "none" \/ Queued(Reads)' # {}
    BY <1>1, <1>2, <1>4, <1>5, AfterStartRead DEF IInv
<1>7. MoveUp({"connect"}) /\ MoveUp({"timer"})
    BY <1>6 DEF Reads
<1>8. TypeOK'
    BY <1>2, <1>6 DEF IInv, TypeOK
<1>9. OneConnect'
    <2>1. Queued({"connect"})' = {}
        BY <1>3, <1>6, <1>7, TheOnlyOneGoes DEF IInv, OneConnect
    <2>2. QED BY <1>2, <1>4, <2>1 DEF OneConnect
<1>10. OneTimer'
    BY <1>2, <1>3, <1>6, <1>7, OthersMoveUp DEF IInv, OneTimer
<1>11. OneRead'
    BY <1>6 DEF OneRead
<1>12. Waiting'
    BY <1>2, <1>4, <1>6 DEF Waiting
<1>13. LateReads' /\ WellTimed' /\ Withdrawn'
    BY <1>2 DEF LateReads, WellTimed, Withdrawn
<1>14. QED BY <1>8, <1>9, <1>10, <1>11, <1>12, <1>13 DEF IInv

(* What happens to the reads of a lost connection when another handler     *)
(* than theirs has run.                                                    *)
LEMMA LateReadsMoveUp ==
    ASSUME LateReads, ready' \in Seq(Completion), ready \in Seq(Completion), \A S : MoveUp(S),
           UNCHANGED <<connected, socket_open, attempting_connection>>
    PROVE  LateReads'
<1>1. SUFFICES ASSUME ~connected, NEW k \in Queued(Reads)'
               PROVE  /\ \A j \in Queued({"connect"})' : k < j
                      /\ ready'[k].ok => /\ ~socket_open /\ ~attempting_connection
                                         /\ \A j \in Queued({"timer"})' : k < j
    BY DEF LateReads
<1>2. k + 1 \in Queued(Reads) /\ ready'[k] = ready[k + 1]
    BY DEF MoveUp
<1>3. /\ \A j \in Queued({"connect"})' : j + 1 \in Queued({"connect"})
      /\ \A j \in Queued({"timer"})' : j + 1 \in Queued({"timer"})
    BY DEF MoveUp
<1>4. \A S : Queued(S)' \in SUBSET Int
    BY DEF Queued
<1>5. QED BY <1>1, <1>2, <1>3, <1>4 DEF LateReads

LEMMA ConnectFailedKeeps ==
    ASSUME IInv, HandleConnectFailed, overtaken' = overtaken
    PROVE  IInv'
<1>1. /\ ready \in Seq(Completion) /\ ready # << >>
      /\ \A S : 1 \in Queued(S) <=> "connect" \in S
    BY AtTheHead DEF IInv, HandleConnectFailed
<1>2. /\ ready' = Tail(ready) /\ attempting_connection' = FALSE
      /\ StartConnect(connected, FALSE)
      /\ UNCHANGED <<connected, socket_open, connect_op, read_op, write_ops, shown>>
    BY DEF HandleConnectFailed
<1>3. 1 \in Queued({"connect"}) /\ 1 \notin Queued({"timer"})
    BY <1>1
<1>4. /\ attempting_connection /\ ~connected /\ ~timer_fired /\ ~connect_op /\ read_op = "none"
      /\ ~timer_op /\ Queued({"timer"}) = {}
    BY <1>3 DEF IInv, OneConnect, OneTimer, Waiting
<1>5. Queued(Reads) = {}
    <2>1. \A k \in Queued(Reads) : k < 1
        BY <1>3, <1>4 DEF IInv, LateReads
    <2>2. Queued(Reads) \in SUBSET (Nat \ {0})
        BY <1>1 DEF Queued
    <2>3. QED BY <2>1, <2>2
<1>6. timer_fired' = TRUE /\ timer_op' = TRUE
    BY <1>2, <1>4 DEF StartConnect
<1>7. ready' \in Seq(Completion) /\ \A S : MoveUp(S)
    BY <1>1, <1>2, AfterPop DEF IInv
<1>8. Queued({"connect"})' = {} /\ Queued({"timer"})' = {} /\ Queued(Reads)' = {}
    <2>1. Queued({"connect"})' = {}
        BY <1>3, <1>7, TheOnlyOneGoes DEF IInv, OneConnect
    <2>2. Queued({"timer"})' = {} /\ Queued(Reads)' = {}
        BY <1>3, <1>4, <1>5, <1>7, OthersMoveUp
    <2>3. QED BY <2>1, <2>2
<1>9. TypeOK'
    BY <1>2, <1>6, <1>7 DEF IInv, TypeOK
<1>10. OneConnect' /\ OneTimer' /\ OneRead'
    BY <1>2, <1>4, <1>6, <1>8 DEF OneConnect, OneTimer, OneRead
<1>11. Waiting'
    BY <1>2, <1>4, <1>6 DEF IInv, Waiting
<1>12. LateReads' /\ WellTimed'
    BY <1>2, <1>8 DEF LateReads, WellTimed
<1>13. Withdrawn'
    BY <1>2, <1>4, <1>5 DEF IInv, Withdrawn
<1>14. QED BY <1>9, <1>10, <1>11, <1>12, <1>13 DEF IInv

LEMMA TimerKeeps ==
    ASSUME IInv, HandleTimer, overtaken' = overtaken
    PROVE  IInv'
<1>1. /\ ready \in Seq(Completion) /\ ready # << >>
      /\ \A S : 1 \in Queued(S) <=> "timer" \in S
    BY AtTheHead DEF IInv, HandleTimer
<1>2. 1 \in Queued({"timer"}) /\ 1 \notin Queued({"connect"}) /\ 1 \notin Queued(Reads) /\ 1 \notin Queued(Transfers)
    BY <1>1 DEF Reads, Transfers
<1>3. /\ timer_fired /\ ~timer_op /\ ~connected /\ ~attempting_connection /\ ~connect_op
      /\ Queued({"connect"}) = {}
    BY <1>2 DEF IInv, OneTimer, OneConnect, Waiting
<1>4. /\ ready' = Tail(ready) /\ timer_fired' = FALSE
      /\ attempting_connection' = TRUE /\ connect_op' = TRUE /\ socket_open' = TRUE
      /\ UNCHANGED <<connected, timer_op, read_op, write_ops, shown>>
    BY <1>3 DEF HandleTimer, StartAsyncConnect
<1>5. ready' \in Seq(Completion) /\ \A S : MoveUp(S)
    BY <1>1, <1>4, AfterPop DEF IInv
<1>6. Queued({"timer"})' = {} /\ Queued({"connect"})' = {}
    <2>1. Queued({"timer"})' = {}
        BY <1>2, <1>5, TheOnlyOneGoes DEF IInv, OneTimer
    <2>2. Queued({"connect"})' = {}
        BY <1>2, <1>3, <1>5, OthersMoveUp
    <2>3. QED BY <2>1, <2>2
<1>7. /\ Queued(Reads)' = {} <=> Queued(Reads) = {}
      /\ (\A j, k \in Queued(Reads) : j = k) => (\A j, k \in Queued(Reads)' : j = k)
    BY <1>2, <1>5, OthersMoveUp
<1>8. TypeOK'
    BY <1>4, <1>5 DEF IInv, TypeOK
<1>9. OneConnect' /\ OneTimer'
    BY <1>3, <1>4, <1>6 DEF OneConnect, OneTimer
<1>10. OneRead' /\ Waiting'
    BY <1>3, <1>4, <1>7 DEF IInv, OneRead, Waiting
<1>11. LateReads'
    <2>1. SUFFICES ASSUME NEW k \in Queued(Reads)' PROVE ~ready'[k].ok
        BY <1>6 DEF LateReads
    <2>2. k + 1 \in Queued(Reads) /\ ready'[k] = ready[k + 1]
        BY <1>5 DEF MoveUp
    <2>3. k \in Nat \ {0}
        BY <1>5 DEF Queued
    <2>4. QED BY <1>2, <1>3, <2>2, <2>3 DEF IInv, LateReads
<1>12. WellTimed'
    <2>1. Queued(Transfers)' = {} <=> Queued(Transfers) = {}
        BY <1>2, <1>5, OthersMoveUp
    <2>2. QED BY <1>2, <1>3, <2>1 DEF IInv, WellTimed
<1>13. Withdrawn'
    <2>1. SUFFICES ASSUME shown # Disconnected PROVE \E k \in Queued(Reads)' : ~ready'[k].ok
        BY <1>4 DEF Withdrawn
    <2>2. PICK k \in Queued(Reads) : ~ready[k].ok
        BY <1>3, <2>1 DEF IInv, Withdrawn
    <2>3. k - 1 \in Queued(Reads)' /\ ready'[k - 1] = ready[k]
        BY <1>2, <1>5, <2>2 DEF MoveUp
    <2>4. QED BY <2>2, <2>3
<1>14. QED BY <1>8, <1>9, <1>10, <1>11, <1>12, <1>13 DEF IInv

LEMMA HeaderKeeps ==
    ASSUME IInv, HandleHeader, overtaken' = overtaken
    PROVE  IInv'
<1>1. /\ ready \in Seq(Completion) /\ ready # << >>
      /\ \A S : 1 \in Queued(S) <=> "header" \in S
    BY AtTheHead DEF IInv, HandleHeader
<1>2. 1 \in Queued(Reads) /\ 1 \notin Queued({"connect"}) /\ 1 \notin Queued({"timer"})
    BY <1>1 DEF Reads
<1>3. /\ connected /\ ready' = Tail(ready) /\ read_op' = "data"
      /\ UNCHANGED <<attempting_connection, timer_fired, connected, socket_open, connect_op, timer_op,
                     write_ops, shown>>
    BY DEF HandleHeader, flags
<1>4. ready' \in Seq(Completion) /\ \A S : MoveUp(S)
    BY <1>1, <1>3, AfterPop DEF IInv
<1>5. Queued(Reads)' = {}
    BY <1>2, <1>4, TheOnlyOneGoes DEF IInv, OneRead
<1>6. TypeOK'
    BY <1>3, <1>4 DEF IInv, TypeOK
<1>7. OneConnect'
    BY <1>2, <1>3, <1>4, OthersMoveUp DEF IInv, OneConnect
<1>8. OneTimer'
    BY <1>2, <1>3, <1>4, OthersMoveUp DEF IInv, OneTimer
<1>9. OneRead' /\ Waiting'
    BY <1>3, <1>5 DEF IInv, OneRead, Waiting
<1>10. LateReads' /\ WellTimed' /\ Withdrawn'
    BY <1>3 DEF LateReads, WellTimed, Withdrawn
<1>11. QED BY <1>6, <1>7, <1>8, <1>9, <1>10 DEF IInv

LEMMA DataKeeps ==
    ASSUME IInv, HandleData, overtaken' = overtaken
    PROVE  IInv'
<1>1. /\ ready \in Seq(Completion) /\ ready # << >> /\ ready[1].ok = TRUE
      /\ \A S : 1 \in Queued(S) <=> "data" \in S
    BY AtTheHead DEF IInv, HandleData
<1>2. /\ 1 \in Queued(Reads) /\ 1 \in Queued(Transfers)
      /\ 1 \notin Queued({"connect"}) /\ 1 \notin Queued({"timer"})
    BY <1>1 DEF Reads, Transfers
<1>3. /\ StartRead
      /\ UNCHANGED <<attempting_connection, timer_fired, connected, socket_open, connect_op, timer_op,
                     write_ops>>
      /\ shown' \in [connection : BOOLEAN, control : BOOLEAN]
    BY DEF HandleData, flags, IInv, TypeOK
<1>4. read_op = "none" /\ \A k \in Queued(Reads) : k = 1
    BY <1>2 DEF IInv, OneRead
<1>5. /\ ready' \in Seq(Completion) /\ read_op' \in {"none", "header"}
      /\ \A S : S \cap Reads = {} => MoveUp(S)
      /\ read_op' # "none" => Queued(Reads)' = {}
      /\ \A j, k \in Queued(Reads)' : j = k /\ ~ready'[j].ok
      /\ read_op' # "none" \/ Queued(Reads)' # {}
      /\ ~socket_open => read_op' = "none" /\ \E k \in Queued(Reads)' : ~ready'[k].ok
    BY <1>1, <1>3, <1>4, AfterStartRead DEF IInv
<1>6. MoveUp({"connect"}) /\ MoveUp({"timer"})
    BY <1>5 DEF Reads
<1>7. /\ Queued({"connect"})' = {} <=> Queued({"connect"}) = {}
      /\ Queued({"timer"})' = {} <=> Queued({"timer"}) = {}
    BY <1>2, <1>5, <1>6, OthersMoveUp
<1>8. ~connected => ~socket_open /\ ~attempting_connection
    BY <1>1, <1>2 DEF IInv, LateReads
<1>9. TypeOK'
    BY <1>3, <1>5 DEF IInv, TypeOK
<1>10. OneConnect'
    BY <1>2, <1>3, <1>5, <1>6, OthersMoveUp DEF IInv, OneConnect
<1>11. OneTimer'
    BY <1>2, <1>3, <1>5, <1>6, OthersMoveUp DEF IInv, OneTimer
<1>12. OneRead'
    BY <1>5 DEF OneRead
<1>13. Waiting'
    BY <1>3, <1>5, <1>8 DEF IInv, Waiting
<1>14. LateReads'
    <2>1. ~connected => Queued({"connect"})' = {}
        BY <1>7, <1>8 DEF IInv, OneConnect
    <2>2. QED BY <1>3, <1>5, <2>1 DEF LateReads
<1>15. WellTimed'
    BY <1>2, <1>3, <1>7 DEF IInv, WellTimed
<1>16. Withdrawn'
    BY <1>3, <1>5, <1>8 DEF Withdrawn
<1>17. QED BY <1>9, <1>10, <1>11, <1>12, <1>13, <1>14, <1>15, <1>16 DEF IInv

LEMMA WrittenKeeps ==
    ASSUME IInv, HandleWritten, overtaken' = overtaken
    PROVE  IInv'
<1>1. /\ ready \in Seq(Completion) /\ ready # << >>
      /\ \A S : 1 \in Queued(S) <=> "write" \in S
    BY AtTheHead DEF IInv, HandleWritten
<1>2. /\ 1 \notin Queued(Reads) /\ 1 \in Queued(Transfers)
      /\ 1 \notin Queued({"connect"}) /\ 1 \notin Queued({"timer"})
    BY <1>1 DEF Reads, Transfers
<1>3. /\ ready' = Tail(ready)
      /\ UNCHANGED <<attempting_connection, timer_fired, connected, socket_open, connect_op, timer_op,
                     read_op, write_ops, shown>>
    BY DEF HandleWritten, flags, ops
<1>4. ready' \in Seq(Completion) /\ \A S : MoveUp(S)
    BY <1>1, <1>3, AfterPop DEF IInv
<1>5. TypeOK'
    BY <1>3, <1>4 DEF IInv, TypeOK
<1>6. OneConnect'
    BY <1>2, <1>3, <1>4, OthersMoveUp DEF IInv, OneConnect
<1>7. OneTimer'
    BY <1>2, <1>3, <1>4, OthersMoveUp DEF IInv, OneTimer
<1>8. OneRead' /\ Waiting'
    <2>1. /\ Queued(Reads)' = {} <=> Queued(Reads) = {}
          /\ (\A j, k \in Queued(Reads) : j = k) => (\A j, k \in Queued(Reads)' : j = k)
        BY <1>2, <1>4, OthersMoveUp
    <2>2. QED BY <1>3, <2>1 DEF IInv, OneRead, Waiting
<1>9. LateReads'
    BY <1>1, <1>3, <1>4, LateReadsMoveUp DEF IInv
<1>10. WellTimed'
    <2>1. Queued({"timer"})' = {} <=> Queued({"timer"}) = {}
        BY <1>2, <1>4, OthersMoveUp
    <2>2. QED BY <1>2, <1>3, <2>1 DEF IInv, WellTimed
<1>11. Withdrawn'
    <2>1. SUFFICES ASSUME ~connected, shown # Disconnected PROVE \E k \in Queued(Reads)' : ~ready'[k].ok
        BY <1>3 DEF Withdrawn
    <2>2. PICK k \in Queued(Reads) : ~ready[k].ok
        BY <2>1 DEF IInv, Withdrawn
    <2>3. k - 1 \in Queued(Reads)' /\ ready'[k - 1] = ready[k]
        BY <1>2, <1>4, <2>2 DEF MoveUp
    <2>4. QED BY <2>2, <2>3
<1>12. QED BY <1>5, <1>6, <1>7, <1>8, <1>9, <1>10, <1>11 DEF IInv

(* reset, called by the handler of a transfer.                             *)
LEMMA ResetKeeps ==
    ASSUME IInv, NEW o \in Transfers, NEW ok, Runs(o, ok), Reset, overtaken' = overtaken
    PROVE  IInv'
<1>1. /\ ready \in Seq(Completion) /\ ready # << >>
      /\ \A S : 1 \in Queued(S) <=> o \in S
    BY AtTheHead DEF IInv
<1>2. /\ 1 \in Queued(Transfers) /\ 1 \notin Queued({"connect"}) /\ 1 \notin Queued({"timer"})
    BY <1>1 DEF Transfers
<1>3. /\ ready' = Tail(ready) \o Aborted /\ socket_open' = FALSE /\ connect_op' = FALSE
      /\ read_op' = "none" /\ write_ops' = 0 /\ shown' = Disconnected /\ connected' = FALSE
      /\ StartConnect(FALSE, attempting_connection) /\ UNCHANGED attempting_connection
    BY DEF Reset
<1>4. ~connect_op \/ (read_op = "none" /\ write_ops = 0)
    BY DEF IInv, OneConnect, Waiting
<1>5. /\ Aborted \in Seq(Completion)
      /\ \A i \in DOMAIN Aborted : i \in Nat \ {0} /\ Aborted[i].ok = FALSE
      /\ connect_op => DOMAIN Aborted = {1} /\ Aborted[1].op = "connect"
      /\ ~connect_op => \A i \in DOMAIN Aborted : Aborted[i].op \in Transfers
      /\ read_op # "none" => 1 \in DOMAIN Aborted /\ Aborted[1].op = read_op
      /\ \A i \in DOMAIN Aborted : Aborted[i].op \in Reads => i = 1 /\ read_op # "none"
    BY <1>4, AbortedShape DEF IInv
<1>6. ready' \in Seq(Completion)
    BY <1>1, <1>3, <1>5, Shifted, SMTT(60)
<1>7. ASSUME NEW S, \A i \in DOMAIN Aborted : Aborted[i].op \notin S PROVE MoveUp(S)
    <2>1. ready \in Seq(Completion) /\ ready # << >> /\ Aborted \in Seq(Completion)
          /\ ready' = Tail(ready) \o Aborted
        BY <1>1, <1>3, <1>5
    <2>2. \A k \in Queued(S) : k # 1 => k - 1 \in Queued(S)' /\ ready'[k - 1] = ready[k]
        BY <2>1, Shifted
    <2>3. \A k \in Queued(S)' : \/ k + 1 \in Queued(S) /\ ready'[k] = ready[k + 1]
                                \/ \E i \in DOMAIN Aborted : Aborted[i].op \in S
        BY <2>1, Shifted
    <2>4. QED BY <1>7, <2>2, <2>3 DEF MoveUp
<1>8. MoveUp({"timer"})
    <2>1. \A i \in DOMAIN Aborted : Aborted[i].op \notin {"timer"}
        BY <1>5 DEF Transfers
    <2>2. QED BY <1>7, <2>1
<1>9. ~connect_op => MoveUp({"connect"})
    <2>1. ~connect_op => \A i \in DOMAIN Aborted : Aborted[i].op \notin {"connect"}
        BY <1>5 DEF Transfers
    <2>2. QED BY <1>7, <2>1
<1>10. read_op = "none" => MoveUp(Reads)
    <2>1. read_op = "none" => \A i \in DOMAIN Aborted : Aborted[i].op \notin Reads
        BY <1>5
    <2>2. QED BY <1>7, <2>1
<1>11. Queued({"timer"})' = {} <=> Queued({"timer"}) = {}
    BY <1>2, <1>6, <1>8, OthersMoveUp
<1>12. \A j, k \in Queued(Reads)' : j = k
    <2>1. CASE read_op = "none"
        <3>1. MoveUp(Reads) /\ \A j, k \in Queued(Reads) : j = k
            BY <1>10, <2>1 DEF IInv, OneRead
        <3>2. Queued(Reads)' \in SUBSET Int
            BY <1>6 DEF Queued
        <3>3. ASSUME NEW j \in Queued(Reads)', NEW k \in Queued(Reads)' PROVE j = k
            <4>1. j + 1 = k + 1
                BY <3>1, <3>3 DEF MoveUp
            <4>2. QED BY <3>2, <3>3, <4>1
        <3>4. QED BY <3>3
    <2>2. CASE read_op # "none"
        <3>1. Queued(Reads) = {}
            BY <2>2 DEF IInv, OneRead
        <3>2. \A k \in Queued(Reads)' :
                \/ k + 1 \in Queued(Reads)
                \/ \E i \in DOMAIN Aborted : Aborted[i].op \in Reads /\ k = Len(ready) - 1 + i
            BY <1>1, <1>3, <1>5, Shifted, SMTT(60)
        <3>3. \A k \in Queued(Reads)' : k = Len(ready) - 1 + 1
            BY <1>5, <3>1, <3>2
        <3>4. QED BY <3>3
    <2>3. QED BY <2>1, <2>2
<1>13. OneRead'
    BY <1>3, <1>12 DEF OneRead
<1>17. 0 \in 0..MaxWrites /\ Disconnected \in [connection : BOOLEAN, control : BOOLEAN]
    BY ControllerClientAssumption DEF Disconnected
<1>14. CASE connected
    <2>1. /\ ~attempting_connection /\ ~timer_fired /\ ~connect_op /\ Queued({"connect"}) = {}
          /\ ~timer_op /\ Queued({"timer"}) = {}
        BY <1>14 DEF IInv, Waiting, OneConnect, OneTimer
    <2>2. timer_fired' = TRUE /\ timer_op' = TRUE
        BY <1>3, <2>1 DEF StartConnect
    <2>3. Queued({"connect"})' = {} /\ Queued({"timer"})' = {}
        <3>1. Queued({"connect"})' = {}
            BY <1>2, <1>6, <1>9, <2>1, OthersMoveUp
        <3>2. QED BY <1>11, <2>1, <3>1
    <2>4. TypeOK'
        BY <1>3, <1>6, <1>17, <2>2 DEF IInv, TypeOK
    <2>5. OneConnect' /\ OneTimer' /\ Waiting'
        BY <1>3, <2>1, <2>2, <2>3 DEF OneConnect, OneTimer, Waiting
    <2>6. LateReads' /\ WellTimed' /\ Withdrawn'
        BY <1>3, <2>1, <2>3 DEF LateReads, WellTimed, Withdrawn
    <2>7. QED BY <1>13, <2>4, <2>5, <2>6 DEF IInv
<1>15. CASE ~connected
    <2>1. read_op = "none" /\ write_ops = 0 /\ (attempting_connection <=> ~timer_fired)
        BY <1>15 DEF IInv, Waiting
    <2>2. timer_fired' = timer_fired /\ timer_op' = timer_op
        BY <1>3, <2>1 DEF StartConnect, IInv, TypeOK
    <2>3. TypeOK'
        BY <1>3, <1>6, <1>17, <2>2 DEF IInv, TypeOK
    <2>4. OneTimer'
        BY <1>2, <1>3, <1>6, <1>8, <2>2, OthersMoveUp DEF IInv, OneTimer
    <2>5. Waiting'
        BY <1>3, <2>1, <2>2 DEF Waiting
    <2>6. MoveUp(Reads)
        BY <1>10, <2>1
    <2>7. connect_op => /\ Queued({"connect"}) = {}
                        /\ Len(ready) \in Queued({"connect"})'
                        /\ \A k \in Queued({"connect"})' : k = Len(ready)
        <3>1. SUFFICES ASSUME connect_op PROVE /\ Queued({"connect"}) = {}
                                               /\ Len(ready) \in Queued({"connect"})'
                                               /\ \A k \in Queued({"connect"})' : k = Len(ready)
            OBVIOUS
        <3>2. Queued({"connect"}) = {}
            BY <3>1 DEF IInv, OneConnect
        <3>3. 1 \in DOMAIN Aborted /\ Aborted[1].op \in {"connect"} /\ \A i \in DOMAIN Aborted : i = 1
            BY <1>5, <3>1
        <3>4. Len(ready) - 1 + 1 = Len(ready)
            BY <1>1
        <3>5. Len(ready) - 1 + 1 \in Queued({"connect"})'
            BY <1>1, <1>3, <1>5, <3>3, Shifted
        <3>6. \A k \in Queued({"connect"})' :
                \/ k + 1 \in Queued({"connect"})
                \/ \E i \in DOMAIN Aborted : k = Len(ready) - 1 + i
            BY <1>1, <1>3, <1>5, Shifted, SMTT(60)
        <3>7. QED BY <3>2, <3>3, <3>4, <3>5, <3>6
    <2>8. OneConnect'
        <3>1. CASE connect_op
            BY <1>3, <2>7, <3>1 DEF IInv, OneConnect
        <3>2. CASE ~connect_op
            BY <1>2, <1>3, <1>6, <1>9, <3>2, OthersMoveUp DEF IInv, OneConnect
        <3>3. QED BY <3>1, <3>2
    <2>9. LateReads'
        <3>1. SUFFICES ASSUME NEW k \in Queued(Reads)'
                       PROVE  /\ \A j \in Queued({"connect"})' : k < j
                              /\ ready'[k].ok => /\ ~attempting_connection
                                                 /\ \A j \in Queued({"timer"})' : k < j
            BY <1>3 DEF LateReads
        <3>2. k + 1 \in Queued(Reads) /\ ready'[k] = ready[k + 1]
            BY <2>6 DEF MoveUp
        <3>3. k \in Int /\ k + 1 \in 1..Len(ready) /\ Len(ready) \in Int
            BY <1>1, <1>6, <3>2 DEF Queued
        <3>4. \A j \in Queued({"connect"})' : k < j
            <4>1. CASE connect_op
                BY <2>7, <3>3, <4>1
            <4>2. CASE ~connect_op
                <5>1. SUFFICES ASSUME NEW j \in Queued({"connect"})' PROVE k < j
                    OBVIOUS
                <5>2. j + 1 \in Queued({"connect"}) /\ j \in Int
                    BY <1>6, <1>9, <4>2 DEF MoveUp, Queued
                <5>3. k + 1 < j + 1
                    BY <1>15, <3>2, <5>2 DEF IInv, LateReads
                <5>4. QED BY <3>3, <5>2, <5>3
            <4>3. QED BY <4>1, <4>2
        <3>5. ASSUME ready'[k].ok, NEW j \in Queued({"timer"})' PROVE k < j
            <4>1. j + 1 \in Queued({"timer"}) /\ j \in Int
                BY <1>6, <1>8 DEF MoveUp, Queued
            <4>2. k + 1 < j + 1
                BY <1>15, <3>2, <3>5, <4>1 DEF IInv, LateReads
            <4>3. QED BY <3>3, <4>1, <4>2
        <3>6. ready'[k].ok => ~attempting_connection
            BY <1>15, <3>2 DEF IInv, LateReads
        <3>7. QED BY <3>4, <3>5, <3>6
    <2>10. WellTimed'
        BY <1>2, <1>3, <1>11, <1>15 DEF IInv, WellTimed
    <2>11. Withdrawn'
        BY <1>3 DEF Withdrawn
    <2>12. QED BY <1>13, <2>3, <2>4, <2>5, <2>8, <2>9, <2>10, <2>11 DEF IInv
<1>16. QED BY <1>14, <1>15

(* The system completes an operation: the handlers of other kinds stay     *)
(* where they are.                                                         *)
LEMMA OthersStay ==
    ASSUME ready \in Seq(Completion), NEW c \in Completion, ready' = Append(ready, c),
           NEW S, c.op \notin S
    PROVE  Queued(S)' = Queued(S) /\ \A k \in Queued(S) : ready'[k] = ready[k]
<1>1. \A k \in Queued(S) : k \in Queued(S)' /\ ready'[k] = ready[k]
    BY Completes
<1>2. \A k \in Queued(S)' : k \in Queued(S)
    BY Completes
<1>3. QED BY <1>1, <1>2

(* The one that is completed comes last.                                   *)
LEMMA ComesLast ==
    ASSUME ready \in Seq(Completion), NEW c \in Completion, ready' = Append(ready, c),
           NEW S, c.op \in S, Queued(S) = {}
    PROVE  Queued(S)' = {Len(ready) + 1}
<1>1. Len(ready) + 1 \in Queued(S)'
    BY Completes
<1>2. \A k \in Queued(S)' : k = Len(ready) + 1
    BY Completes
<1>3. QED BY <1>1, <1>2

LEMMA BeforeTheLast ==
    ASSUME ready \in Seq(Completion), NEW S
    PROVE  \A k \in Queued(S) : k < Len(ready) + 1
<1>1. Len(ready) \in Nat /\ Queued(S) \in SUBSET (1..Len(ready))
    BY Places
<1>2. QED BY <1>1

LEMMA ConnectDoneKeeps ==
    ASSUME IInv, NEW ok \in BOOLEAN, ConnectDone(ok)
    PROVE  IInv'
<1> DEFINE c == Completed("connect", ok)
<1>1. c \in Completion /\ c.op = "connect"
    BY DEF Completed, Completion
<1>2. /\ connect_op /\ connect_op' = FALSE /\ ready' = Append(ready, c)
      /\ UNCHANGED <<attempting_connection, timer_fired, connected, socket_open, timer_op, read_op,
                     write_ops, shown, overtaken>>
    BY DEF ConnectDone, Complete, flags
<1> HIDE DEF c
<1>3. ready \in Seq(Completion) /\ ready' \in Seq(Completion)
    BY <1>1, <1>2, AppendProperties DEF IInv, TypeOK
<1>4. Queued({"connect"}) = {} /\ Queued({"connect"})' = {Len(ready) + 1}
    <2>1. Queued({"connect"}) = {}
        BY <1>2 DEF IInv, OneConnect
    <2>2. QED BY <1>1, <1>2, <1>3, <2>1, ComesLast
<1>5. /\ Queued({"timer"})' = Queued({"timer"}) /\ Queued(Transfers)' = Queued(Transfers)
      /\ Queued(Reads)' = Queued(Reads) /\ \A k \in Queued(Reads) : ready'[k] = ready[k]
    <2>1. c.op \notin {"timer"} /\ c.op \notin Reads /\ c.op \notin Transfers
        BY <1>1 DEF Reads, Transfers
    <2>2. QED BY <1>1, <1>2, <1>3, <2>1, OthersStay
<1>6. TypeOK'
    BY <1>2, <1>3 DEF IInv, TypeOK
<1>7. OneConnect'
    BY <1>2, <1>4 DEF IInv, OneConnect
<1>8. OneTimer' /\ OneRead' /\ Waiting'
    BY <1>2, <1>5 DEF IInv, OneTimer, OneRead, Waiting
<1>9. LateReads'
    <2>1. \A k \in Queued(Reads) : k < Len(ready) + 1
        BY <1>3, BeforeTheLast
    <2>2. QED BY <1>2, <1>4, <1>5, <2>1 DEF IInv, LateReads
<1>10. WellTimed' /\ Withdrawn'
    BY <1>2, <1>5 DEF IInv, WellTimed, Withdrawn
<1>11. QED BY <1>6, <1>7, <1>8, <1>9, <1>10 DEF IInv

LEMMA TimerDoneKeeps ==
    ASSUME IInv, TimerDone
    PROVE  IInv'
<1> DEFINE c == Completed("timer", TRUE)
<1>1. c \in Completion /\ c.op = "timer"
    BY DEF Completed, Completion
<1>2. /\ timer_op /\ timer_op' = FALSE /\ ready' = Append(ready, c)
      /\ overtaken' = (overtaken \/ ready # << >>)
      /\ UNCHANGED <<attempting_connection, timer_fired, connected, socket_open, connect_op, read_op,
                     write_ops, shown>>
    BY DEF TimerDone, Complete, flags
<1> HIDE DEF c
<1>3. ready \in Seq(Completion) /\ ready' \in Seq(Completion)
    BY <1>1, <1>2, AppendProperties DEF IInv, TypeOK
<1>4. Queued({"timer"}) = {} /\ Queued({"timer"})' = {Len(ready) + 1}
    <2>1. Queued({"timer"}) = {}
        BY <1>2 DEF IInv, OneTimer
    <2>2. QED BY <1>1, <1>2, <1>3, <2>1, ComesLast
<1>5. /\ Queued({"connect"})' = Queued({"connect"}) /\ Queued(Transfers)' = Queued(Transfers)
      /\ Queued(Reads)' = Queued(Reads) /\ \A k \in Queued(Reads) : ready'[k] = ready[k]
    <2>1. c.op \notin {"connect"} /\ c.op \notin Reads /\ c.op \notin Transfers
        BY <1>1 DEF Reads, Transfers
    <2>2. QED BY <1>1, <1>2, <1>3, <2>1, OthersStay
<1>6. TypeOK'
    <2>1. overtaken' \in BOOLEAN
        BY <1>2
    <2>2. QED BY <1>2, <1>3, <2>1 DEF IInv, TypeOK
<1>7. OneTimer'
    BY <1>2, <1>4 DEF IInv, OneTimer
<1>8. OneConnect' /\ OneRead' /\ Waiting'
    BY <1>2, <1>5 DEF IInv, OneConnect, OneRead, Waiting
<1>9. LateReads'
    <2>1. \A k \in Queued(Reads) : k < Len(ready) + 1
        BY <1>3, BeforeTheLast
    <2>2. QED BY <1>2, <1>4, <1>5, <2>1 DEF IInv, LateReads
<1>10. WellTimed'
    <2>1. ready = << >> => Queued(Transfers) = {}
        BY <1>3, Places
    <2>2. QED BY <1>2, <1>5, <2>1 DEF WellTimed
<1>11. Withdrawn'
    BY <1>2, <1>5 DEF IInv, Withdrawn
<1>12. QED BY <1>6, <1>7, <1>8, <1>9, <1>10, <1>11 DEF IInv

LEMMA ReadDoneKeeps ==
    ASSUME IInv, NEW ok \in BOOLEAN, ReadDone(ok)
    PROVE  IInv'
<1> DEFINE c == Completed(read_op, ok)
<1>1. c \in Completion /\ c.op \in Reads
    BY DEF Completed, Completion, Reads, ReadDone, IInv, TypeOK
<1>2. /\ read_op # "none" /\ read_op' = "none" /\ ready' = Append(ready, c)
      /\ UNCHANGED <<attempting_connection, timer_fired, connected, socket_open, connect_op, timer_op,
                     write_ops, shown, overtaken>>
    BY DEF ReadDone, Complete, flags
<1> HIDE DEF c
<1>3. ready \in Seq(Completion) /\ ready' \in Seq(Completion)
    BY <1>1, <1>2, AppendProperties DEF IInv, TypeOK
<1>4. Queued(Reads)' = {Len(ready) + 1}
    <2>1. Queued(Reads) = {}
        BY <1>2 DEF IInv, OneRead
    <2>2. QED BY <1>1, <1>2, <1>3, <2>1, ComesLast
<1>5. Queued({"connect"})' = Queued({"connect"}) /\ Queued({"timer"})' = Queued({"timer"})
    <2>1. c.op \notin {"connect"} /\ c.op \notin {"timer"}
        BY <1>1 DEF Reads
    <2>2. QED BY <1>1, <1>2, <1>3, <2>1, OthersStay
<1>6. connected
    BY <1>2 DEF IInv, Waiting
<1>7. TypeOK'
    BY <1>2, <1>3 DEF IInv, TypeOK
<1>8. OneConnect' /\ OneTimer' /\ OneRead' /\ Waiting'
    BY <1>2, <1>4, <1>5, <1>6 DEF IInv, OneConnect, OneTimer, OneRead, Waiting
<1>9. LateReads' /\ WellTimed' /\ Withdrawn'
    BY <1>2, <1>6 DEF LateReads, WellTimed, Withdrawn
<1>10. QED BY <1>7, <1>8, <1>9 DEF IInv

LEMMA WriteDoneKeeps ==
    ASSUME IInv, NEW ok \in BOOLEAN, WriteDone(ok)
    PROVE  IInv'
<1> DEFINE c == Completed("write", ok)
<1>1. c \in Completion /\ c.op = "write"
    BY DEF Completed, Completion
<1>2. /\ write_ops > 0 /\ write_ops' = write_ops - 1 /\ ready' = Append(ready, c)
      /\ UNCHANGED <<attempting_connection, timer_fired, connected, socket_open, connect_op, timer_op,
                     read_op, shown, overtaken>>
    BY DEF WriteDone, Complete, flags
<1> HIDE DEF c
<1>3. ready \in Seq(Completion) /\ ready' \in Seq(Completion)
    BY <1>1, <1>2, AppendProperties DEF IInv, TypeOK
<1>4. /\ Queued({"connect"})' = Queued({"connect"}) /\ Queued({"timer"})' = Queued({"timer"})
      /\ Queued(Reads)' = Queued(Reads)
    <2>1. c.op \notin {"connect"} /\ c.op \notin {"timer"} /\ c.op \notin Reads
        BY <1>1 DEF Reads
    <2>2. QED BY <1>1, <1>2, <1>3, <2>1, OthersStay
<1>5. connected
    BY <1>2 DEF IInv, Waiting
<1>6. TypeOK'
    <2>1. write_ops' \in 0..MaxWrites
        BY <1>2, ControllerClientAssumption DEF IInv, TypeOK
    <2>2. QED BY <1>2, <1>3, <2>1 DEF IInv, TypeOK
<1>7. OneConnect' /\ OneTimer' /\ OneRead' /\ Waiting'
    BY <1>2, <1>4, <1>5 DEF IInv, OneConnect, OneTimer, OneRead, Waiting
<1>8. LateReads' /\ WellTimed' /\ Withdrawn'
    BY <1>2, <1>5 DEF LateReads, WellTimed, Withdrawn
<1>9. QED BY <1>6, <1>7, <1>8 DEF IInv

LEMMA SendCommandKeeps ==
    ASSUME IInv, SendCommand
    PROVE  IInv'
<1>1. /\ connected
      /\ UNCHANGED <<attempting_connection, timer_fired, connected, socket_open, connect_op, timer_op,
                     read_op, ready, shown, overtaken>>
    BY DEF SendCommand, flags
<1>2. write_ops' \in 0..MaxWrites
    <2>1. PICK writes \in {1, 2} : /\ write_ops + Cardinality(Queued({"write"})) + writes <= MaxWrites
                                   /\ write_ops' = write_ops + writes
        BY DEF SendCommand
    <2>2. Cardinality(Queued({"write"})) \in Nat
        <3>1. Queued({"write"}) \in SUBSET (1..Len(ready)) /\ Len(ready) \in Nat
            BY Places DEF IInv, TypeOK
        <3>2. IsFiniteSet(1..Len(ready))
            BY <3>1, FS_Interval
        <3>3. IsFiniteSet(Queued({"write"}))
            BY <3>1, <3>2, FS_Subset
        <3>4. QED BY <3>3, FS_CardinalityType
    <2>3. write_ops \in Nat
        BY ControllerClientAssumption DEF IInv, TypeOK
    <2>4. QED BY <2>1, <2>2, <2>3, ControllerClientAssumption
<1>3. \A S : Queued(S)' = Queued(S)
    BY <1>1 DEF Queued
<1>4. TypeOK'
    BY <1>1, <1>2 DEF IInv, TypeOK
<1>5. OneConnect' /\ OneTimer' /\ OneRead' /\ Waiting'
    BY <1>1, <1>3 DEF IInv, OneConnect, OneTimer, OneRead, Waiting
<1>6. LateReads' /\ WellTimed' /\ Withdrawn'
    BY <1>1 DEF LateReads, WellTimed, Withdrawn
<1>7. QED BY <1>4, <1>5, <1>6 DEF IInv

-----------------------------------------------------------------------------
(* The invariant holds in every state of every behaviour.                  *)
THEOREM ClientInvariant == Spec => []IInv
<1>1. Init => IInv
    <2>1. SUFFICES ASSUME Init PROVE IInv
        OBVIOUS
    <2>2. ready \in Seq(Completion) /\ ready = << >>
        BY <2>1 DEF Init
    <2>3. \A S : Queued(S) = {}
        BY <2>2, Places
    <2>4. TypeOK
        <3>1. write_ops \in 0..MaxWrites
            BY <2>1, ControllerClientAssumption DEF Init
        <3>2. shown \in [connection : BOOLEAN, control : BOOLEAN]
            BY <2>1 DEF Init, Disconnected
        <3>3. QED BY <2>1, <2>2, <3>1, <3>2 DEF Init, TypeOK
    <2>5. QED BY <2>1, <2>3, <2>4 DEF Init, IInv, OneConnect, OneTimer, OneRead, Waiting, LateReads,
                 WellTimed, Withdrawn
<1>2. IInv /\ [Next]_vars => IInv'
    <2>1. SUFFICES ASSUME IInv, [Next]_vars PROVE IInv'
        OBVIOUS
    <2>2. CASE Handle
        <3>1. overtaken' = overtaken
            BY <2>2 DEF Handle
        <3>2. CASE HandleConnected \/ HandleConnectFailed \/ HandleTimer
            BY <2>1, <3>1, <3>2, ConnectedKeeps, ConnectFailedKeeps, TimerKeeps
        <3>3. CASE HandleHeader \/ HandleData \/ HandleWritten
            BY <2>1, <3>1, <3>3, HeaderKeeps, DataKeeps, WrittenKeeps
        <3>4. CASE HandleBadData \/ HandleReadFailed \/ HandleWriteFailed
            <4>1. "header" \in Transfers /\ "data" \in Transfers /\ "write" \in Transfers
                BY DEF Transfers
            <4>2. \E o \in Transfers, ok \in BOOLEAN : Runs(o, ok) /\ Reset
                BY <3>4, <4>1 DEF HandleBadData, HandleReadFailed, HandleWriteFailed
            <4>3. QED BY <2>1, <3>1, <4>2, ResetKeeps
        <3>5. QED BY <2>2, <3>2, <3>3, <3>4 DEF Handle
    <2>3. CASE SendCommand
        BY <2>1, <2>3, SendCommandKeeps
    <2>4. CASE TimerDone
        BY <2>1, <2>4, TimerDoneKeeps
    <2>5. CASE \E ok \in BOOLEAN : ConnectDone(ok) \/ ReadDone(ok) \/ WriteDone(ok)
        BY <2>1, <2>5, ConnectDoneKeeps, ReadDoneKeeps, WriteDoneKeeps
    <2>6. CASE UNCHANGED vars
        <3>1. \A S : Queued(S)' = Queued(S)
            BY <2>6 DEF Queued, vars
        <3>2. QED BY <2>1, <2>6, <3>1 DEF vars, flags, ops, IInv, TypeOK, OneConnect, OneTimer, OneRead,
                     Waiting, LateReads, WellTimed, Withdrawn
    <2>7. QED BY <2>1, <2>2, <2>3, <2>4, <2>5, <2>6 DEF Next
<1>3. QED BY <1>1, <1>2, PTL DEF Spec

(* The state of the connection keeps to its types.                         *)
THEOREM ClientTypeCorrect == Spec => []TypeOK
<1>1. IInv => TypeOK
    BY DEF IInv
<1>2. QED BY <1>1, ClientInvariant, PTL

(* A set of places that are all the same has at most one element.          *)
LEMMA AtMostOne ==
    ASSUME NEW S, \A j, k \in S : j = k
    PROVE  /\ S = {} => Cardinality(S) = 0
           /\ S # {} => Cardinality(S) = 1
<1>1. S = {} => Cardinality(S) = 0
    BY FS_EmptySet
<1>2. ASSUME S # {} PROVE Cardinality(S) = 1
    <2>1. PICK k : S = {k}
        BY <1>2
    <2>2. QED BY <2>1, FS_Singleton
<1>3. QED BY <1>1, <1>2

(* There is never more than one attempt to connect, one timer or one read, *)
(* counting the handlers in the queue, and the flags of Client tell which. *)
THEOREM ThereIsOneOfEach == Spec => []OneOfEach
<1>1. IInv => OneOfEach
    <2>1. SUFFICES ASSUME IInv PROVE OneOfEach
        OBVIOUS
    <2>2. Number(connect_op) + Cardinality(Queued({"connect"})) = Number(attempting_connection)
        BY <2>1, AtMostOne DEF IInv, OneConnect, Number
    <2>3. Number(timer_op) + Cardinality(Queued({"timer"})) = Number(timer_fired)
        BY <2>1, AtMostOne DEF IInv, OneTimer, Number
    <2>4. Number(read_op # "none") + Cardinality(Queued(Reads)) <= 1
        BY <2>1, AtMostOne DEF IInv, OneRead, Number
    <2>5. QED BY <2>2, <2>3, <2>4 DEF OneOfEach, Reads
<1>2. QED BY <1>1, ClientInvariant, PTL

(* With a connection a read waits for its end; without one an attempt or   *)
(* the timer is under way, and never both.                                 *)
THEOREM ClientIsNeverStranded == Spec => []NeverStranded
<1>1. IInv => NeverStranded
    <2>1. SUFFICES ASSUME IInv PROVE NeverStranded
        OBVIOUS
    <2>2. connected => ~attempting_connection /\ (read_op # "none" \/ Queued(Reads) # {})
        BY <2>1 DEF IInv, Waiting
    <2>3. ~connected => attempting_connection # timer_fired
        BY <2>1 DEF IInv, TypeOK, Waiting
    <2>4. QED BY <2>2, <2>3 DEF NeverStranded, Reads
<1>2. QED BY <1>1, ClientInvariant, PTL

(* A status that is shown without a connection will be withdrawn by a read *)
(* that has failed and is queued.                                          *)
THEOREM StatusIsWithdrawn == Spec => []StaleStatusIsWithdrawn
<1>1. IInv => StaleStatusIsWithdrawn
    BY DEF IInv, Withdrawn, StaleStatusIsWithdrawn, Reads
<1>2. QED BY <1>1, ClientInvariant, PTL

(* No handler of a lost connection lives to see the next attempt, unless   *)
(* the loop has been a second late.                                        *)
THEOREM ConnectionsAreApart == Spec => []ConnectionsDoNotMix
<1>1. IInv => ConnectionsDoNotMix
    <2>1. SUFFICES ASSUME IInv, attempting_connection, ~overtaken
                   PROVE  read_op = "none" /\ write_ops = 0 /\ Queued(Transfers) = {}
        BY DEF ConnectionsDoNotMix, Transfers
    <2>2. ~connected /\ read_op = "none" /\ write_ops = 0
        BY <2>1 DEF IInv, Waiting
    <2>3. QED BY <2>1, <2>2 DEF IInv, WellTimed
<1>2. QED BY <1>1, ClientInvariant, PTL

-----------------------------------------------------------------------------
(* The types of messages, and the words that stand in them.  (To the       *)
(* provers a literal need not be a STRING.)                                *)
MessageTypes == {"MAIN_STATUS", "START_SIM", "TAKE_CONTROL", "STOP_SIM", "PLAY_SIMICS", "PAUSE_SIMICS",
                 "APP_INITIAL_STATUS", "VM_LIST"}
Word == STRING \cup MessageTypes \cup {"none"}

(* What is written, and the bytes of it.                                   *)
Piece ==
    [is : {"host_message"}, message : Word, size : Nat]
    \cup [is : {"main_status", "config_message"}, status : Word]
    \cup [is : {"total_apps", "total_vm_snapshots", "text"}, size : Nat]
    \cup [is : {"app_status"}, size : Nat, alt_size : Nat, status : Word]
    \cup [is : {"counts"}, counts : Seq(Nat)]

Byte == [of : Piece, at : Nat]

(* The pieces that are structures.                                         *)
Kinds == {"host_message", "main_status", "total_apps", "app_status", "total_vm_snapshots", "config_message"}

(* The sizes of the structures are not zero.                               *)
LEMMA Sizes ==
    /\ SizeOf.host_message = 8 /\ SizeOf.main_status = 24 /\ SizeOf.total_apps = 8
    /\ SizeOf.app_status = 32 /\ SizeOf.total_vm_snapshots = 16 /\ SizeOf.config_message = 4
    /\ SizeOf.uint32 = 4
    /\ \A kind \in Kinds : SizeOf[kind] \in Nat \ {0}
    BY DEF SizeOf, Kinds

(* The structures and texts are pieces.                                    *)
LEMMA PieceTypes ==
    /\ \A type \in Word, n \in Nat : HostMessage(type, n) \in Piece /\ HostMessage(type, n).is = "host_message"
    /\ \A st \in Word : MainStatus(st) \in Piece /\ MainStatus(st).is = "main_status"
    /\ \A n \in Nat : TotalApps(n) \in Piece /\ TotalApps(n).is = "total_apps"
    /\ \A n, alt \in Nat, st \in Word : AppStatus(n, alt, st) \in Piece /\ AppStatus(n, alt, st).is = "app_status"
    /\ \A n \in Nat : TotalSnaps(n) \in Piece /\ TotalSnaps(n).is = "total_vm_snapshots"
    /\ \A st \in Word : Config(st) \in Piece /\ Config(st).is = "config_message"
    /\ \A ns \in Seq(Nat) : Counts(ns) \in Piece /\ Counts(ns).is = "counts"
    /\ \A n \in Nat : Text(n) \in Piece /\ Text(n).is = "text"
<1>1. \A type \in Word, n \in Nat : HostMessage(type, n) \in Piece /\ HostMessage(type, n).is = "host_message"
    BY DEF Piece, HostMessage
<1>2. \A st \in Word : MainStatus(st) \in Piece /\ MainStatus(st).is = "main_status"
    BY DEF Piece, MainStatus
<1>3. \A n \in Nat : TotalApps(n) \in Piece /\ TotalApps(n).is = "total_apps"
    BY DEF Piece, TotalApps
<1>4. \A n, alt \in Nat, st \in Word : AppStatus(n, alt, st) \in Piece /\ AppStatus(n, alt, st).is = "app_status"
    BY DEF Piece, AppStatus
<1>5. \A n \in Nat : TotalSnaps(n) \in Piece /\ TotalSnaps(n).is = "total_vm_snapshots"
    BY DEF Piece, TotalSnaps
<1>6. \A st \in Word : Config(st) \in Piece /\ Config(st).is = "config_message"
    BY DEF Piece, Config
<1>7. \A ns \in Seq(Nat) : Counts(ns) \in Piece /\ Counts(ns).is = "counts"
    BY DEF Piece, Counts
<1>8. \A n \in Nat : Text(n) \in Piece /\ Text(n).is = "text"
    BY DEF Piece, Text
<1>9. QED BY <1>1, <1>2, <1>3, <1>4, <1>5, <1>6, <1>7, <1>8

(* How many bytes a piece has.                                             *)
LEMMA PieceSizes ==
    ASSUME NEW p \in Piece
    PROVE  /\ p.is = "text" => Bytes(p) = p.size /\ p.size \in Nat
           /\ p.is = "counts" => Bytes(p) = Len(p.counts) * SizeOf.uint32 /\ p.counts \in Seq(Nat)
           /\ p.is \in Kinds => Bytes(p) = SizeOf[p.is]
           /\ p.is \in Kinds \cup {"text", "counts"}
           /\ Bytes(p) \in Nat
<1>1. p.is \in Kinds \cup {"text", "counts"}
    BY DEF Piece, Kinds
<1>2. ASSUME p.is = "text" PROVE Bytes(p) = p.size /\ p.size \in Nat
    BY <1>2 DEF Piece, Bytes
<1>3. ASSUME p.is = "counts" PROVE Bytes(p) = Len(p.counts) * SizeOf.uint32 /\ p.counts \in Seq(Nat)
    BY <1>3 DEF Piece, Bytes
<1>4. ASSUME p.is \in Kinds PROVE Bytes(p) = SizeOf[p.is]
    BY <1>4 DEF Kinds, Bytes
<1>5. Bytes(p) \in Nat
    <2>1. ASSUME p.is = "counts" PROVE Len(p.counts) * 4 \in Nat
        <3>1. Len(p.counts) \in Nat
            BY <1>3, <2>1, LenProperties
        <3>2. QED BY <3>1
    <2>2. QED BY <1>1, <1>2, <1>3, <1>4, <2>1, Sizes
<1>6. QED BY <1>1, <1>2, <1>3, <1>4, <1>5

(* The bytes of a piece.                                                   *)
LEMMA MemoryTypes ==
    ASSUME NEW p \in Piece
    PROVE  /\ Memory(p) \in Seq(Byte) /\ Len(Memory(p)) = Bytes(p) /\ Bytes(p) \in Nat
           /\ \A k \in 1..Bytes(p) : Memory(p)[k] = [of |-> p, at |-> k]
<1>1. Bytes(p) \in Nat
    BY PieceSizes
<1>2. \A k \in 1..Bytes(p) : [of |-> p, at |-> k] \in Byte
    BY <1>1 DEF Byte
<1>3. Memory(p) \in [1..Bytes(p) -> Byte]
    BY <1>2 DEF Memory
<1>4. Memory(p) \in Seq(Byte) /\ Len(Memory(p)) = Bytes(p)
    BY <1>1, <1>3, FunctionsAreSequences
<1>5. QED BY <1>1, <1>4 DEF Memory

-----------------------------------------------------------------------------
(* The bytes of pieces, one after the other.                               *)
MemoryOf == [p \in Piece |-> Memory(p)]
Stream(ps) == FlattenSeq(Image(MemoryOf, ps))

(* The stream of pieces joined is their streams joined.                    *)
LEMMA StreamTyped ==
    ASSUME NEW ps \in Seq(Piece)
    PROVE  Stream(ps) \in Seq(Byte)
<1>1. \A p \in Piece : MemoryOf[p] \in Seq(Byte)
    BY MemoryTypes DEF MemoryOf
<1>2. Image(MemoryOf, ps) \in Seq(Seq(Byte))
    BY <1>1, ImageTyped
<1>3. QED BY <1>2, FlattenTyped DEF Stream

LEMMA StreamNone == Stream(<< >>) = << >>
<1>1. Image(MemoryOf, << >>) = << >>
    BY DEF Image
<1>2. QED BY <1>1, FlattenNone DEF Stream

LEMMA StreamOne ==
    ASSUME NEW p \in Piece
    PROVE  Stream(<<p>>) = Memory(p)
<1>1. MemoryOf[p] = Memory(p) /\ Memory(p) \in Seq(Byte)
    BY MemoryTypes DEF MemoryOf
<1>2. Image(MemoryOf, <<p>>) = <<Memory(p)>>
    BY <1>1 DEF Image
<1>3. QED BY <1>1, <1>2, FlattenOne DEF Stream

LEMMA StreamJoin ==
    ASSUME NEW ps \in Seq(Piece), NEW qs \in Seq(Piece)
    PROVE  Stream(ps \o qs) = Stream(ps) \o Stream(qs)
<1>1. \A p \in Piece : MemoryOf[p] \in Seq(Byte)
    BY MemoryTypes DEF MemoryOf
<1>2. Image(MemoryOf, ps) \in Seq(Seq(Byte)) /\ Image(MemoryOf, qs) \in Seq(Seq(Byte))
    BY <1>1, ImageTyped
<1>3. Image(MemoryOf, ps \o qs) = Image(MemoryOf, ps) \o Image(MemoryOf, qs)
    BY ImageJoin
<1>4. QED BY <1>2, <1>3, FlattenJoin DEF Stream

-----------------------------------------------------------------------------
(* b is found in the data at offset it.                                    *)
Holds(data, it, b) ==
    /\ it \in Nat /\ it + Len(b) <= Len(data)
    /\ \A k \in 1..Len(b) : data[it + k] = b[k]

(* What is found there joined is found part by part.                       *)
LEMMA HoldsParts ==
    ASSUME NEW S, NEW data \in Seq(S), NEW it, NEW a \in Seq(S), NEW b \in Seq(S), Holds(data, it, a \o b)
    PROVE  Holds(data, it, a) /\ Holds(data, it + Len(a), b)
<1>1. /\ Len(a \o b) = Len(a) + Len(b) /\ Len(a) \in Nat /\ Len(b) \in Nat
      /\ \A i \in 1..Len(a) + Len(b) : (a \o b)[i] = IF i <= Len(a) THEN a[i] ELSE b[i - Len(a)]
    BY ConcatProperties, LenProperties
<1>2. /\ it \in Nat /\ it + (Len(a) + Len(b)) <= Len(data) /\ Len(data) \in Nat
      /\ \A k \in 1..Len(a) + Len(b) : data[it + k] = (a \o b)[k]
    BY <1>1 DEF Holds
<1>3. Holds(data, it, a)
    <2>1. ASSUME NEW k \in 1..Len(a) PROVE data[it + k] = a[k]
        <3>1. k \in 1..Len(a) + Len(b) /\ k <= Len(a)
            BY <1>1
        <3>2. QED BY <1>1, <1>2, <3>1
    <2>2. it + Len(a) <= Len(data)
        BY <1>1, <1>2
    <2>3. QED BY <1>2, <2>1, <2>2 DEF Holds
<1>4. Holds(data, it + Len(a), b)
    <2>1. ASSUME NEW k \in 1..Len(b) PROVE data[(it + Len(a)) + k] = b[k]
        <3>1. /\ Len(a) + k \in 1..Len(a) + Len(b) /\ ~(Len(a) + k <= Len(a)) /\ (Len(a) + k) - Len(a) = k
              /\ (it + Len(a)) + k = it + (Len(a) + k)
            BY <1>1, <1>2
        <3>2. QED BY <1>1, <1>2, <3>1
    <2>2. it + Len(a) \in Nat /\ (it + Len(a)) + Len(b) <= Len(data)
        BY <1>1, <1>2
    <2>3. QED BY <2>1, <2>2 DEF Holds
<1>5. QED BY <1>3, <1>4

LEMMA HoldsItself ==
    ASSUME NEW S, NEW data \in Seq(S)
    PROVE  Holds(data, 0, data)
    BY LenProperties DEF Holds

(* What is cut out of the data there.                                      *)
LEMMA BytesFound ==
    ASSUME NEW S, NEW data \in Seq(S), NEW it, NEW b \in Seq(S), Holds(data, it, b)
    PROVE  BytesAt(data, it, Len(b)) = b
<1>1. it \in Nat /\ Len(b) \in Nat /\ Len(data) \in Nat /\ it + Len(b) <= Len(data)
    BY LenProperties DEF Holds
<1>2. BytesAt(data, it, Len(b)) = SubSeq(data, it + 1, it + Len(b))
    BY <1>1 DEF BytesAt
<1> DEFINE c == SubSeq(data, it + 1, it + Len(b))
<1>3. \A i \in it + 1..it + Len(b) : data[i] \in S
    BY <1>1, ElementOfSeq
<1>4. /\ c \in Seq(S) /\ Len(c) = Len(b)
      /\ \A i \in 1..Len(b) : c[i] = data[it + i]
    <2>1. it + 1 \in 1..Len(data) + 1 /\ it + Len(b) \in 0..Len(data)
        BY <1>1
    <2>2. c \in Seq(S)
        BY <2>1
    <2>3. Len(c) = Len(b)
        BY <1>1, <2>1
    <2>4. \A i \in 1..Len(b) : c[i] = data[it + i]
        BY <1>1, <2>1
    <2>5. QED BY <2>2, <2>3, <2>4
<1> HIDE DEF c
<1>5. \A i \in 1..Len(c) : c[i] = b[i]
    BY <1>4 DEF Holds
<1>6. c = b
    BY <1>4, <1>5, SeqEqual
<1>7. QED BY <1>2, <1>6 DEF c

(* A cast shows a structure that is there.                                 *)
LEMMA StructFound ==
    ASSUME NEW data \in Seq(Byte), NEW it, NEW p \in Piece, p.is \in Kinds, Holds(data, it, Memory(p))
    PROVE  StructAt(data, it, p.is) = p /\ it + SizeOf[p.is] \in Nat
<1>1. /\ Memory(p) \in Seq(Byte) /\ Len(Memory(p)) = SizeOf[p.is] /\ SizeOf[p.is] \in Nat \ {0}
      /\ Memory(p)[1] = [of |-> p, at |-> 1]
    BY MemoryTypes, PieceSizes, Sizes
<1>2. BytesAt(data, it, SizeOf[p.is]) = Memory(p)
    BY <1>1, BytesFound
<1>3. it \in Nat /\ it < Len(data) /\ data[it + 1] = Memory(p)[1]
    <2> DEFINE n == Len(Memory(p))
    <2>1. it \in Nat /\ it + n <= Len(data) /\ \A k \in 1..n : data[it + k] = Memory(p)[k]
        BY DEF Holds
    <2>2. n \in Nat \ {0} /\ Len(data) \in Nat
        BY <1>1, LenProperties
    <2> HIDE DEF n
    <2>3. QED BY <2>1, <2>2
<1>4. data[it + 1].of = p
    BY <1>1, <1>3
<1>5. QED BY <1>1, <1>2, <1>3, <1>4 DEF StructAt

(* A name is read if its text is there.                                    *)
LEMMA TextFound ==
    ASSUME NEW data \in Seq(Byte), NEW it, NEW n \in Nat, Holds(data, it, Memory(Text(n)))
    PROVE  TextAt(data, it, n) = n /\ Len(Memory(Text(n))) = n
<1>1. Text(n) \in Piece /\ Bytes(Text(n)) = n
    BY PieceTypes, PieceSizes DEF Text
<1>2. Memory(Text(n)) \in Seq(Byte) /\ Len(Memory(Text(n))) = n
    BY <1>1, MemoryTypes
<1>3. BytesAt(data, it, n) = Memory(Text(n))
    BY <1>2, BytesFound
<1>4. QED BY <1>2, <1>3 DEF TextAt

(* The numbers of snapshots are read if they are there.                    *)
LEMMA CountsFound ==
    ASSUME NEW data \in Seq(Byte), NEW it, NEW ns \in Seq(Nat), Holds(data, it, Memory(Counts(ns)))
    PROVE  CountsAt(data, it, Len(ns)) = ns /\ Len(Memory(Counts(ns))) = Len(ns) * SizeOf.uint32
<1> DEFINE p == Counts(ns)
<1>1. /\ p \in Piece /\ p.is = "counts" /\ p.counts = ns /\ Len(ns) \in Nat
      /\ Bytes(p) = Len(ns) * SizeOf.uint32
    BY PieceTypes, PieceSizes, LenProperties DEF Counts
<1> HIDE DEF p
<1>2. /\ Memory(p) \in Seq(Byte) /\ Len(Memory(p)) = Len(ns) * SizeOf.uint32
      /\ \A k \in 1..Bytes(p) : Memory(p)[k] = [of |-> p, at |-> k]
    BY <1>1, MemoryTypes
<1>3. BytesAt(data, it, Len(ns) * SizeOf.uint32) = Memory(p)
    <2>1. Holds(data, it, Memory(p))
        BY DEF p
    <2>2. QED BY <1>2, <2>1, BytesFound
<1>4. CASE Len(ns) = 0
    <2>1. ns = << >>
        BY <1>4
    <2>2. CountsAt(data, it, Len(ns)) = << >>
        BY <1>4 DEF CountsAt
    <2>3. QED BY <1>2, <2>1, <2>2 DEF p
<1>5. CASE Len(ns) > 0
    <2>1. Len(ns) * 4 >= 1 /\ Len(ns) * 4 \in Nat
        BY <1>1, <1>5
    <2>2. it \in Nat /\ it < Len(data) /\ data[it + 1] = Memory(p)[1] /\ 1 \in 1..Bytes(p)
        BY <1>1, <1>2, <2>1, Sizes, LenProperties DEF Holds, p
    <2>3. data[it + 1].of = p
        <3>1. Memory(p)[1] = [of |-> p, at |-> 1]
            BY <1>2, <2>2
        <3>2. QED BY <2>2, <3>1
    <2>4. CountsAt(data, it, Len(ns)) = p.counts
        BY <1>1, <1>3, <1>5, <2>2, <2>3 DEF CountsAt
    <2>5. QED BY <1>1, <1>2, <2>4 DEF p
<1>6. QED BY <1>1, <1>4, <1>5

(* Where in the stream of some parts the first i of them end.              *)
Cut(parts, i) == Len(Stream(FlattenSeq(SubSeq(parts, 1, i))))

(* The stream of the first parts, one part after the other.                *)
LEMMA StreamGrows ==
    ASSUME NEW parts \in Seq(Seq(Piece)), NEW i \in 1..Len(parts)
    PROVE  /\ Stream(FlattenSeq(SubSeq(parts, 1, i - 1))) \in Seq(Byte)
           /\ Stream(parts[i]) \in Seq(Byte)
           /\ Stream(FlattenSeq(SubSeq(parts, 1, i)))
                  = Stream(FlattenSeq(SubSeq(parts, 1, i - 1))) \o Stream(parts[i])
           /\ \E rest \in Seq(Byte) :
                  Stream(FlattenSeq(parts)) = Stream(FlattenSeq(SubSeq(parts, 1, i))) \o rest
<1> DEFINE before == SubSeq(parts, 1, i - 1)
           upTo == SubSeq(parts, 1, i)
           after == SubSeq(parts, i + 1, Len(parts))
           x == parts[i]
           one == <<x>>
<1>1. /\ before \in Seq(Seq(Piece)) /\ upTo \in Seq(Seq(Piece)) /\ after \in Seq(Seq(Piece))
      /\ x \in Seq(Piece) /\ upTo = before \o one /\ parts = upTo \o after
    BY Beginnings
<1>2. one \in Seq(Seq(Piece)) /\ FlattenSeq(one) = x
    BY <1>1, FlattenOne
<1> HIDE DEF before, upTo, after, x, one
<1>3. FlattenSeq(before) \in Seq(Piece) /\ FlattenSeq(upTo) \in Seq(Piece) /\ FlattenSeq(after) \in Seq(Piece)
    BY <1>1, FlattenTyped
<1>4. FlattenSeq(upTo) = FlattenSeq(before) \o x
    BY <1>1, <1>2, FlattenJoin
<1>5. FlattenSeq(parts) = FlattenSeq(upTo) \o FlattenSeq(after)
    BY <1>1, FlattenJoin
<1>6. Stream(FlattenSeq(before)) \in Seq(Byte) /\ Stream(x) \in Seq(Byte) /\ Stream(FlattenSeq(after)) \in Seq(Byte)
    BY <1>1, <1>3, StreamTyped
<1>7. Stream(FlattenSeq(upTo)) = Stream(FlattenSeq(before)) \o Stream(x)
    BY <1>1, <1>3, <1>4, StreamJoin
<1>8. Stream(FlattenSeq(parts)) = Stream(FlattenSeq(upTo)) \o Stream(FlattenSeq(after))
    BY <1>3, <1>5, StreamJoin
<1>9. QED BY <1>6, <1>7, <1>8 DEF before, upTo, x

(* The next part ends where the one before it did, and its length.         *)
LEMMA Cuts ==
    ASSUME NEW parts \in Seq(Seq(Piece))
    PROVE  /\ Cut(parts, 0) = 0
           /\ Cut(parts, Len(parts)) = Len(Stream(FlattenSeq(parts)))
           /\ \A i \in 1..Len(parts) : /\ Cut(parts, i) = Cut(parts, i - 1) + Len(Stream(parts[i]))
                                       /\ Cut(parts, i - 1) \in Nat /\ Len(Stream(parts[i])) \in Nat
<1>1. Cut(parts, 0) = 0
    <2>1. SubSeq(parts, 1, 0) = << >>
        BY SubSeqEmpty
    <2>2. Len(<< >>) = 0
        BY EmptySeq
    <2>3. QED BY <2>1, <2>2, FlattenNone, StreamNone DEF Cut
<1>2. Cut(parts, Len(parts)) = Len(Stream(FlattenSeq(parts)))
    BY SubSeqFull DEF Cut
<1>3. ASSUME NEW i \in 1..Len(parts)
      PROVE  /\ Cut(parts, i) = Cut(parts, i - 1) + Len(Stream(parts[i]))
             /\ Cut(parts, i - 1) \in Nat /\ Len(Stream(parts[i])) \in Nat
    <2> DEFINE a == Stream(FlattenSeq(SubSeq(parts, 1, i - 1)))
               b == Stream(parts[i])
    <2>1. a \in Seq(Byte) /\ b \in Seq(Byte) /\ Stream(FlattenSeq(SubSeq(parts, 1, i))) = a \o b
        BY StreamGrows
    <2> HIDE DEF a, b
    <2>2. Len(a \o b) = Len(a) + Len(b) /\ Len(a) \in Nat /\ Len(b) \in Nat
        BY <2>1, ConcatProperties, LenProperties
    <2>3. QED BY <2>1, <2>2 DEF Cut, a, b
<1>4. QED BY <1>1, <1>2, <1>3

(* If the stream of all the parts is there, each part is where the ones    *)
(* before it end.                                                          *)
LEMMA CutsFound ==
    ASSUME NEW parts \in Seq(Seq(Piece)), NEW data \in Seq(Byte), NEW it,
           Holds(data, it, Stream(FlattenSeq(parts))), NEW i \in 1..Len(parts)
    PROVE  Holds(data, it + Cut(parts, i - 1), Stream(parts[i]))
<1> DEFINE a == Stream(FlattenSeq(SubSeq(parts, 1, i - 1)))
           b == Stream(parts[i])
           c == Stream(FlattenSeq(SubSeq(parts, 1, i)))
<1>1. a \in Seq(Byte) /\ b \in Seq(Byte) /\ c = a \o b
    BY StreamGrows
<1>2. PICK rest \in Seq(Byte) : Stream(FlattenSeq(parts)) = c \o rest
    BY StreamGrows
<1>3. Cut(parts, i - 1) = Len(a)
    BY DEF Cut
<1> HIDE DEF a, b, c
<1>4. c \in Seq(Byte)
    BY <1>1, ConcatProperties
<1>5. Holds(data, it, c)
    BY <1>2, <1>4, HoldsParts
<1>6. Holds(data, it + Len(a), b)
    BY <1>1, <1>5, HoldsParts
<1>7. QED BY <1>3, <1>6 DEF b

(* Sums, step by step.                                                     *)
LEMMA TotalIs ==
    ASSUME NEW ns \in Seq(Nat), NEW w, w = [i \in 0..Len(ns) |-> w[i]], w[0] = 0,
           \A i \in 1..Len(ns) : w[i] = w[i - 1] + ns[i]
    PROVE  Total(ns) = w[Len(ns)]
<1> DEFINE Def(f) == f = [i \in 0..Len(ns) |-> IF i = 0 THEN 0 ELSE f[i - 1] + ns[i]]
           F == CHOOSE f : Def(f)
<1>1. Total(ns) = F[Len(ns)]
    BY DEF Total
<1>2. Len(ns) \in Nat
    BY LenProperties
<1>3. Def(w)
    <2>1. ASSUME NEW i \in 0..Len(ns) PROVE w[i] = IF i = 0 THEN 0 ELSE w[i - 1] + ns[i]
        <3>1. CASE i = 0
            BY <3>1
        <3>2. CASE i # 0
            <4>1. i \in 1..Len(ns)
                BY <1>2, <3>2
            <4>2. QED BY <3>2, <4>1
        <3>3. QED BY <3>1, <3>2
    <2>2. [i \in 0..Len(ns) |-> w[i]] = [i \in 0..Len(ns) |-> IF i = 0 THEN 0 ELSE w[i - 1] + ns[i]]
        BY <2>1
    <2>3. QED BY <2>2
<1>4. Def(F)
    <2> HIDE DEF Def
    <2>1. QED BY <1>3, Zenon
<1> HIDE DEF F
<1>5. F[0] = 0 /\ \A i \in 1..Len(ns) : F[i] = F[i - 1] + ns[i]
    BY <1>2, <1>4
<1>6. F[0] = w[0] /\ \A i \in 1..Len(ns) : F[i - 1] = w[i - 1] => F[i] = w[i]
    BY <1>5
<1>7. F[Len(ns)] = w[Len(ns)]
    BY <1>2, <1>6, LoopEnds
<1>8. QED BY <1>1, <1>7

(* The sum of the lengths of the parts is the length of their stream.      *)
LEMMA TotalOfLengths ==
    ASSUME NEW parts \in Seq(Seq(Piece)), NEW ns \in Seq(Nat), Len(ns) = Len(parts),
           \A i \in 1..Len(parts) : ns[i] = Len(Stream(parts[i]))
    PROVE  Total(ns) = Len(Stream(FlattenSeq(parts))) /\ Len(Stream(FlattenSeq(parts))) \in Nat
<1> DEFINE w == [i \in 0..Len(ns) |-> Cut(parts, i)]
<1>1. Len(parts) \in Nat
    BY LenProperties
<1>2. w = [i \in 0..Len(ns) |-> w[i]]
    OBVIOUS
<1>3. w[0] = 0
    BY <1>1, Cuts
<1>4. ASSUME NEW i \in 1..Len(ns) PROVE w[i] = w[i - 1] + ns[i]
    <2>1. i \in 0..Len(ns) /\ i - 1 \in 0..Len(ns) /\ i \in 1..Len(parts)
        BY <1>1
    <2>2. Cut(parts, i) = Cut(parts, i - 1) + Len(Stream(parts[i]))
        BY <2>1, Cuts
    <2>3. QED BY <2>1, <2>2
<1>5. w[Len(ns)] = Len(Stream(FlattenSeq(parts)))
    <2>1. w[Len(ns)] = Cut(parts, Len(parts))
        BY <1>1
    <2>2. QED BY <2>1, Cuts
<1> HIDE DEF w
<1>6. Total(ns) = w[Len(ns)]
    BY <1>2, <1>3, <1>4, TotalIs
<1>7. FlattenSeq(parts) \in Seq(Piece)
    BY FlattenTyped
<1>8. QED BY <1>5, <1>6, <1>7, StreamTyped, LenProperties

-----------------------------------------------------------------------------
(* An entry, and what is read of it.                                       *)
EntryRead(e) == [name |-> e.name, status |-> e.status]

(* An entry is a structure and the text of the name.                       *)
LEMMA EntryTyped ==
    ASSUME NEW e \in Machine
    PROVE  /\ AppStatus(e.name, 0, e.status) \in Piece /\ Text(e.name) \in Piece
           /\ Entry(e) \in Seq(Piece)
           /\ Stream(Entry(e)) = Memory(AppStatus(e.name, 0, e.status)) \o Memory(Text(e.name))
           /\ Memory(AppStatus(e.name, 0, e.status)) \in Seq(Byte)
           /\ Len(Memory(AppStatus(e.name, 0, e.status))) = SizeOf.app_status
           /\ Memory(Text(e.name)) \in Seq(Byte) /\ Len(Memory(Text(e.name))) = e.name
           /\ Len(Stream(Entry(e))) = SizeOf.app_status + e.name
           /\ EntryRead(e) \in [name : Nat, status : STRING] /\ e.name \in Nat
<1> DEFINE s == AppStatus(e.name, 0, e.status)
           t == Text(e.name)
<1>1. e.name \in Nat /\ e.status \in Word /\ e.status \in STRING
    BY DEF Machine, Word
<1>2. /\ s \in Piece /\ t \in Piece /\ s.is = "app_status" /\ t.is = "text" /\ t.size = e.name
    BY <1>1, PieceTypes DEF Text
<1>3. Entry(e) = <<s>> \o <<t>>
    BY DEF Entry
<1> HIDE DEF s, t
<1>4. <<s>> \in Seq(Piece) /\ <<t>> \in Seq(Piece) /\ <<s>> \o <<t>> \in Seq(Piece)
    BY <1>2
<1>5. Stream(Entry(e)) = Memory(s) \o Memory(t)
    BY <1>2, <1>3, <1>4, StreamJoin, StreamOne
<1>6. Memory(s) \in Seq(Byte) /\ Len(Memory(s)) = SizeOf.app_status /\ SizeOf.app_status \in Nat
    BY <1>2, MemoryTypes, PieceSizes, Sizes DEF Kinds
<1>7. Memory(t) \in Seq(Byte) /\ Len(Memory(t)) = e.name
    BY <1>2, MemoryTypes, PieceSizes
<1>8. Len(Memory(s) \o Memory(t)) = Len(Memory(s)) + Len(Memory(t))
    BY <1>6, <1>7, ConcatProperties
<1>9. EntryRead(e) \in [name : Nat, status : STRING]
    BY <1>1 DEF EntryRead
<1>10. QED BY <1>1, <1>2, <1>3, <1>4, <1>5, <1>6, <1>7, <1>8, <1>9 DEF s, t

(* One round of the loop over entries, if the entry is there.              *)
LEMMA EntryFound ==
    ASSUME NEW data \in Seq(Byte), NEW it, NEW out, NEW e \in Machine, Holds(data, it, Stream(Entry(e)))
    PROVE  NextEntry(data, [it |-> it, out |-> out])
               = [it |-> it + Len(Stream(Entry(e))), out |-> Append(out, EntryRead(e))]
<1> DEFINE s == AppStatus(e.name, 0, e.status)
           t == Text(e.name)
           so == [it |-> it, out |-> out]
           behind == it + SizeOf.app_status
<1>1. /\ s \in Piece /\ Memory(s) \in Seq(Byte) /\ Memory(t) \in Seq(Byte)
      /\ Len(Memory(s)) = SizeOf.app_status /\ Stream(Entry(e)) = Memory(s) \o Memory(t)
      /\ Len(Stream(Entry(e))) = SizeOf.app_status + e.name /\ e.name \in Nat
    BY EntryTyped
<1>2. s.is = "app_status" /\ s.size = e.name /\ s.status = e.status /\ "app_status" \in Kinds
    BY DEF AppStatus, Kinds
<1> HIDE DEF s
<1>3. Holds(data, it, Memory(s)) /\ Holds(data, behind, Memory(t))
    BY <1>1, HoldsParts
<1>4. StructAt(data, it, "app_status") = s /\ it \in Nat
    BY <1>1, <1>2, <1>3, StructFound DEF Holds
<1>5. TextAt(data, behind, e.name) = e.name
    BY <1>1, <1>3, TextFound
<1>6. NextEntry(data, so) = [it |-> behind + e.name, out |-> Append(out, [name |-> e.name, status |-> e.status])]
    BY <1>2, <1>4, <1>5 DEF NextEntry
<1>7. behind + e.name = it + Len(Stream(Entry(e)))
    <2> DEFINE z == SizeOf.app_status
    <2>1. z \in Nat
        BY Sizes
    <2>2. Len(Stream(Entry(e))) = z + e.name /\ behind = it + z
        BY <1>1
    <2> HIDE DEF z, behind
    <2>3. QED BY <1>1, <1>4, <2>1, <2>2
<1>8. QED BY <1>6, <1>7 DEF EntryRead

EntryParts(list) == [i \in DOMAIN list |-> Entry(list[i])]
EntriesRead(list) == [i \in DOMAIN list |-> EntryRead(list[i])]

(* The entries of a list, and what is to be read of them.                  *)
LEMMA EntriesTyped ==
    ASSUME NEW list \in Seq(Machine)
    PROVE  /\ EntryParts(list) \in Seq(Seq(Piece)) /\ Len(EntryParts(list)) = Len(list)
           /\ EntriesRead(list) \in Seq([name : Nat, status : STRING]) /\ Len(EntriesRead(list)) = Len(list)
           /\ Entries(list) = FlattenSeq(EntryParts(list)) /\ Entries(list) \in Seq(Piece)
           /\ Len(list) \in Nat /\ DOMAIN list = 1..Len(list)
           /\ \A i \in 1..Len(list) : list[i] \in Machine /\ EntryParts(list)[i] = Entry(list[i])
                                      /\ EntriesRead(list)[i] = EntryRead(list[i])
<1>1. Len(list) \in Nat /\ DOMAIN list = 1..Len(list) /\ \A i \in 1..Len(list) : list[i] \in Machine
    BY LenProperties, ElementOfSeq
<1>2. EntryParts(list) \in [1..Len(list) -> Seq(Piece)]
    BY <1>1, EntryTyped DEF EntryParts
<1>3. EntriesRead(list) \in [1..Len(list) -> [name : Nat, status : STRING]]
    BY <1>1, EntryTyped DEF EntriesRead
<1>4. EntryParts(list) \in Seq(Seq(Piece)) /\ Len(EntryParts(list)) = Len(list)
    BY <1>1, <1>2, FunctionsAreSequences
<1>5. EntriesRead(list) \in Seq([name : Nat, status : STRING]) /\ Len(EntriesRead(list)) = Len(list)
    BY <1>1, <1>3, FunctionsAreSequences
<1>6. Entries(list) = FlattenSeq(EntryParts(list))
    BY DEF Entries, EntryParts
<1>7. Entries(list) \in Seq(Piece)
    BY <1>4, <1>6, FlattenTyped
<1>8. QED BY <1>1, <1>4, <1>5, <1>6, <1>7 DEF EntryParts, EntriesRead

(* The loop over the entries reads all of them, and ends behind the last.  *)
LEMMA EntriesFound ==
    ASSUME NEW data \in Seq(Byte), NEW start, NEW list \in Seq(Machine), Holds(data, start, Stream(Entries(list)))
    PROVE  ReadEntries(data, start, Len(list))
               = [it |-> start + Len(Stream(Entries(list))), out |-> EntriesRead(list)]
<1> DEFINE parts == EntryParts(list)
           outs == EntriesRead(list)
           n == Len(list)
           Item == [name : Nat, status : STRING]
           Def(f) == f = [i \in 0..n |-> IF i = 0 THEN Start(start) ELSE NextEntry(data, f[i - 1])]
           F == CHOOSE f : Def(f)
           W(i) == [it |-> start + Cut(parts, i), out |-> SubSeq(outs, 1, i)]
           w == [i \in 0..n |-> W(i)]
<1>1. ReadEntries(data, start, n) = F[n]
    BY DEF ReadEntries
<1>2. /\ parts \in Seq(Seq(Piece)) /\ Len(parts) = n /\ outs \in Seq(Item) /\ Len(outs) = n /\ n \in Nat
      /\ \A i \in 1..n : list[i] \in Machine /\ parts[i] = Entry(list[i]) /\ outs[i] = EntryRead(list[i])
      /\ Holds(data, start, Stream(FlattenSeq(parts))) /\ start \in Nat
    BY EntriesTyped DEF Holds
<1>3. Stream(Entries(list)) = Stream(FlattenSeq(parts))
    BY EntriesTyped
<1> HIDE DEF parts, outs, n, Item
<1>4. W(0) = Start(start)
    BY <1>2, Cuts, OneMore DEF Start
<1>5. ASSUME NEW i \in 1..n PROVE NextEntry(data, W(i - 1)) = W(i)
    <2>1. Holds(data, start + Cut(parts, i - 1), Stream(Entry(list[i]))) /\ list[i] \in Machine
        <3>1. i \in 1..Len(parts)
            BY <1>2
        <3>2. Holds(data, start + Cut(parts, i - 1), Stream(parts[i]))
            BY <1>2, <3>1, CutsFound
        <3>3. QED BY <1>2, <3>2
    <2>2. NextEntry(data, W(i - 1)) = [it |-> (start + Cut(parts, i - 1)) + Len(Stream(Entry(list[i]))),
                                       out |-> Append(SubSeq(outs, 1, i - 1), EntryRead(list[i]))]
        <3> DEFINE at == start + Cut(parts, i - 1)
                   done == SubSeq(outs, 1, i - 1)
                   e == list[i]
        <3>1. e \in Machine /\ Holds(data, at, Stream(Entry(e)))
            BY <2>1
        <3> HIDE DEF at, done, e
        <3>2. NextEntry(data, [it |-> at, out |-> done])
                  = [it |-> at + Len(Stream(Entry(e))), out |-> Append(done, EntryRead(e))]
            BY <3>1, EntryFound
        <3>3. QED BY <3>2 DEF at, done, e
    <2>3. SubSeq(outs, 1, i) = Append(SubSeq(outs, 1, i - 1), EntryRead(list[i]))
        BY <1>2, OneMore
    <2>4. (start + Cut(parts, i - 1)) + Len(Stream(Entry(list[i]))) = start + Cut(parts, i)
        <3>1. i \in 1..Len(parts) /\ parts[i] = Entry(list[i])
            BY <1>2
        <3>2. /\ Cut(parts, i) = Cut(parts, i - 1) + Len(Stream(parts[i]))
              /\ Cut(parts, i - 1) \in Nat /\ Len(Stream(parts[i])) \in Nat
            BY <1>2, <3>1, Cuts
        <3>3. QED BY <1>2, <3>1, <3>2
    <2>5. QED BY <2>2, <2>3, <2>4
<1> HIDE DEF W
<1>6. w[0] = Start(start) /\ w[n] = W(n) /\ \A i \in 1..n : NextEntry(data, w[i - 1]) = w[i]
    BY <1>2, <1>4, <1>5
<1>7. Def(w)
    <2>1. ASSUME NEW i \in 0..n PROVE W(i) = IF i = 0 THEN Start(start) ELSE NextEntry(data, w[i - 1])
        <3>1. CASE i = 0
            BY <1>4, <3>1
        <3>2. CASE i # 0
            <4>1. i \in 1..n
                BY <1>2, <3>2
            <4>2. QED BY <1>6, <3>2, <4>1
        <3>3. QED BY <3>1, <3>2
    <2> DEFINE v == w
    <2>2. v = [i \in 0..n |-> W(i)]
        OBVIOUS
    <2>3. \A i \in 0..n : W(i) = IF i = 0 THEN Start(start) ELSE NextEntry(data, v[i - 1])
        BY <2>1
    <2> HIDE DEF v
    <2>4. v = [i \in 0..n |-> IF i = 0 THEN Start(start) ELSE NextEntry(data, v[i - 1])]
        BY <2>2, <2>3
    <2>5. QED BY <2>4 DEF v
<1> HIDE DEF w
<1>8. Def(F)
    <2> HIDE DEF Def
    <2>1. QED BY <1>7, Zenon
<1> HIDE DEF F
<1>9. F[0] = Start(start) /\ \A i \in 1..n : F[i] = NextEntry(data, F[i - 1])
    <2> DEFINE R(i) == IF i = 0 THEN Start(start) ELSE NextEntry(data, F[i - 1])
    <2>1. F = [i \in 0..n |-> R(i)]
        BY <1>8
    <2>2. R(0) = Start(start) /\ \A i \in 1..n : R(i) = NextEntry(data, F[i - 1])
        BY <1>2
    <2> HIDE DEF R
    <2>3. QED BY <1>2, <2>1, <2>2
<1>10. F[n] = w[n]
    <2>1. F[0] = w[0] /\ \A i \in 1..n : F[i - 1] = w[i - 1] => F[i] = w[i]
        BY <1>6, <1>9
    <2>2. QED BY <1>2, <2>1, LoopEnds
<1>11. W(n) = [it |-> start + Len(Stream(Entries(list))), out |-> outs]
    <2>1. Cut(parts, n) = Len(Stream(FlattenSeq(parts))) /\ SubSeq(outs, 1, n) = outs
        BY <1>2, Cuts, OneMore
    <2>2. QED BY <1>3, <2>1 DEF W
<1>12. QED BY <1>1, <1>6, <1>10, <1>11 DEF n, outs

(* A snapshot: a structure and two texts.                                  *)
LEMMA SnapTyped ==
    ASSUME NEW s \in Nat \X Nat
    PROVE  /\ Snap(s) \in Seq(Piece) /\ AppStatus(s[1], s[2], "none") \in Piece
           /\ Stream(Snap(s)) = Memory(AppStatus(s[1], s[2], "none"))
                                    \o (Memory(Text(s[1])) \o Memory(Text(s[2])))
           /\ Memory(AppStatus(s[1], s[2], "none")) \in Seq(Byte)
           /\ Len(Memory(AppStatus(s[1], s[2], "none"))) = SizeOf.app_status
           /\ Memory(Text(s[1])) \in Seq(Byte) /\ Len(Memory(Text(s[1]))) = s[1]
           /\ Memory(Text(s[2])) \in Seq(Byte) /\ Len(Memory(Text(s[2]))) = s[2]
           /\ Len(Stream(Snap(s))) = (SizeOf.app_status + s[1]) + s[2]
           /\ s[1] \in Nat /\ s[2] \in Nat /\ s = <<s[1], s[2]>>
<1> DEFINE a == AppStatus(s[1], s[2], "none")
           t == Text(s[1])
           u == Text(s[2])
<1>1. s[1] \in Nat /\ s[2] \in Nat /\ s = <<s[1], s[2]>>
    OBVIOUS
<1>2. /\ a \in Piece /\ t \in Piece /\ u \in Piece /\ a.is = "app_status"
      /\ t.is = "text" /\ t.size = s[1] /\ u.is = "text" /\ u.size = s[2]
    <2>1. a \in Piece /\ a.is = "app_status"
        <3> DEFINE m == s[1]
                   n == s[2]
                   st == "none"
        <3>1. m \in Nat /\ n \in Nat /\ st \in Word
            BY <1>1 DEF Word
        <3> HIDE DEF m, n, st
        <3>2. AppStatus(m, n, st) \in Piece /\ AppStatus(m, n, st).is = "app_status"
            BY <3>1, PieceTypes
        <3>3. QED BY <3>2 DEF m, n, st
    <2>2. t \in Piece /\ t.is = "text" /\ t.size = s[1]
        BY <1>1, PieceTypes DEF Text
    <2>3. u \in Piece /\ u.is = "text" /\ u.size = s[2]
        BY <1>1, PieceTypes DEF Text
    <2>4. QED BY <2>1, <2>2, <2>3
<1>3. Snap(s) = <<a>> \o (<<t>> \o <<u>>)
    BY DEF Snap
<1> HIDE DEF a, t, u
<1>4. <<a>> \in Seq(Piece) /\ <<t>> \in Seq(Piece) /\ <<u>> \in Seq(Piece) /\ <<t>> \o <<u>> \in Seq(Piece)
    BY <1>2
<1>5. Stream(<<t>> \o <<u>>) = Memory(t) \o Memory(u)
    BY <1>2, <1>4, StreamJoin, StreamOne
<1>6. Stream(Snap(s)) = Memory(a) \o (Memory(t) \o Memory(u))
    BY <1>2, <1>3, <1>4, <1>5, StreamJoin, StreamOne
<1>7. Memory(a) \in Seq(Byte) /\ Len(Memory(a)) = SizeOf.app_status /\ SizeOf.app_status \in Nat
    BY <1>2, MemoryTypes, PieceSizes, Sizes DEF Kinds
<1>8. Memory(t) \in Seq(Byte) /\ Len(Memory(t)) = s[1] /\ Memory(u) \in Seq(Byte) /\ Len(Memory(u)) = s[2]
    BY <1>2, MemoryTypes, PieceSizes
<1> DEFINE ma == Memory(a)
           mt == Memory(t)
           mu == Memory(u)
           tu == mt \o mu
<1>9. tu \in Seq(Byte) /\ Len(tu) = s[1] + s[2]
    <2> HIDE DEF mt, mu
    <2>1. mt \in Seq(Byte) /\ mu \in Seq(Byte) /\ Len(mt) = s[1] /\ Len(mu) = s[2]
        BY <1>8 DEF mt, mu
    <2>2. tu \in Seq(Byte) /\ Len(tu) = Len(mt) + Len(mu)
        BY <2>1, ConcatProperties
    <2>3. QED BY <2>1, <2>2
<1>10. Len(Stream(Snap(s))) = (SizeOf.app_status + s[1]) + s[2]
    <2> DEFINE z == SizeOf.app_status
               all == Stream(Snap(s))
    <2>1. all = ma \o tu /\ ma \in Seq(Byte) /\ Len(ma) = z /\ z \in Nat
        BY <1>6, <1>7
    <2> HIDE DEF z, all, ma, tu
    <2>2. Len(all) = Len(ma) + Len(tu)
        BY <1>9, <2>1, ConcatProperties
    <2>3. Len(all) = (z + s[1]) + s[2]
        BY <1>1, <1>9, <2>1, <2>2
    <2>4. QED BY <2>3 DEF z, all
<1>11. Snap(s) \in Seq(Piece)
    BY <1>3, <1>4
<1>12. QED BY <1>1, <1>2, <1>6, <1>7, <1>8, <1>10, <1>11 DEF a, t, u

(* One round of the loop over snapshots, if the snapshot is there.         *)
LEMMA SnapFound ==
    ASSUME NEW data \in Seq(Byte), NEW it, NEW out, NEW s \in Nat \X Nat, Holds(data, it, Stream(Snap(s)))
    PROVE  NextSnap(data, [it |-> it, out |-> out])
               = [it |-> it + Len(Stream(Snap(s))), out |-> Append(out, s)]
<1> DEFINE a == AppStatus(s[1], s[2], "none")
           t == Memory(Text(s[1]))
           u == Memory(Text(s[2]))
           so == [it |-> it, out |-> out]
           behind == it + SizeOf.app_status
           last == behind + s[1]
<1>1. /\ a \in Piece /\ Memory(a) \in Seq(Byte) /\ t \in Seq(Byte) /\ u \in Seq(Byte)
      /\ Len(Memory(a)) = SizeOf.app_status /\ Len(t) = s[1] /\ Len(u) = s[2]
      /\ Stream(Snap(s)) = Memory(a) \o (t \o u)
      /\ Len(Stream(Snap(s))) = (SizeOf.app_status + s[1]) + s[2]
      /\ s[1] \in Nat /\ s[2] \in Nat /\ s = <<s[1], s[2]>>
    BY SnapTyped
<1>2. a.is = "app_status" /\ a.size = s[1] /\ a.alt_size = s[2] /\ "app_status" \in Kinds
    BY DEF AppStatus, Kinds
<1> HIDE DEF a, t, u
<1> DEFINE tu == t \o u
<1>3. tu \in Seq(Byte)
    BY <1>1, ConcatProperties
<1>4. Holds(data, it, Memory(a)) /\ Holds(data, behind, tu) /\ it \in Nat
    <2>1. Holds(data, it, Memory(a) \o tu)
        BY <1>1
    <2> HIDE DEF tu
    <2>2. Holds(data, it, Memory(a)) /\ Holds(data, it + Len(Memory(a)), tu)
        BY <1>1, <1>3, <2>1, HoldsParts
    <2>3. it \in Nat
        BY <2>1 DEF Holds
    <2>4. QED BY <1>1, <2>2, <2>3
<1>5. Holds(data, behind, t) /\ Holds(data, last, u)
    <2> HIDE DEF behind
    <2>1. QED BY <1>1, <1>4, HoldsParts
<1>6. StructAt(data, it, "app_status") = a /\ it \in Nat
    BY <1>1, <1>2, <1>4, StructFound
<1>7. TextAt(data, behind, s[1]) = s[1] /\ TextAt(data, last, s[2]) = s[2]
    <2> HIDE DEF behind, last
    <2>1. QED BY <1>1, <1>5, TextFound DEF t, u
<1>8. NextSnap(data, so) = [it |-> last + s[2], out |-> Append(out, <<s[1], s[2]>>)]
    BY <1>2, <1>6, <1>7 DEF NextSnap
<1>9. last + s[2] = it + Len(Stream(Snap(s)))
    <2> DEFINE z == SizeOf.app_status
    <2>1. z \in Nat
        BY Sizes
    <2>2. Len(Stream(Snap(s))) = (z + s[1]) + s[2] /\ behind = it + z /\ last = behind + s[1]
        BY <1>1
    <2> HIDE DEF z, behind, last
    <2>3. QED BY <1>1, <1>6, <2>1, <2>2
<1>10. QED BY <1>1, <1>8, <1>9

SnapParts(e) == [k \in DOMAIN e.snaps |-> Snap(e.snaps[k])]

(* The snapshots of a machine.                                             *)
LEMMA SnapsTyped ==
    ASSUME NEW e \in Machine
    PROVE  /\ SnapParts(e) \in Seq(Seq(Piece)) /\ Len(SnapParts(e)) = Len(e.snaps)
           /\ SnapsOf(e) = FlattenSeq(SnapParts(e)) /\ SnapsOf(e) \in Seq(Piece)
           /\ e.snaps \in Seq(Nat \X Nat) /\ Len(e.snaps) \in Nat /\ DOMAIN e.snaps = 1..Len(e.snaps)
           /\ \A k \in 1..Len(e.snaps) : e.snaps[k] \in Nat \X Nat /\ SnapParts(e)[k] = Snap(e.snaps[k])
<1> DEFINE snaps == e.snaps
<1>1. snaps \in Seq(Nat \X Nat)
    BY DEF Machine
<1> HIDE DEF snaps
<1>2. Len(snaps) \in Nat /\ DOMAIN snaps = 1..Len(snaps) /\ \A k \in 1..Len(snaps) : snaps[k] \in Nat \X Nat
    BY <1>1, LenProperties, ElementOfSeq
<1>3. SnapParts(e) = [k \in 1..Len(snaps) |-> Snap(snaps[k])]
    BY <1>2 DEF SnapParts, snaps
<1>4. SnapParts(e) \in [1..Len(snaps) -> Seq(Piece)]
    BY <1>2, <1>3, SnapTyped
<1>5. SnapParts(e) \in Seq(Seq(Piece)) /\ Len(SnapParts(e)) = Len(snaps)
    BY <1>2, <1>4, FunctionsAreSequences
<1>6. SnapsOf(e) = FlattenSeq(SnapParts(e))
    BY DEF SnapsOf, SnapParts
<1>7. SnapsOf(e) \in Seq(Piece)
    BY <1>5, <1>6, FlattenTyped
<1>8. QED BY <1>1, <1>2, <1>3, <1>5, <1>6, <1>7 DEF snaps

(* The loop over the snapshots of a machine reads all of them, and ends    *)
(* behind the last.                                                        *)
LEMMA SnapsFound ==
    ASSUME NEW data \in Seq(Byte), NEW start, NEW e \in Machine, Holds(data, start, Stream(SnapsOf(e)))
    PROVE  ReadSnaps(data, start, Len(e.snaps)) = [it |-> start + Len(Stream(SnapsOf(e))), out |-> e.snaps]
<1> DEFINE parts == SnapParts(e)
           outs == e.snaps
           n == Len(e.snaps)
           Def(f) == f = [k \in 0..n |-> IF k = 0 THEN Start(start) ELSE NextSnap(data, f[k - 1])]
           F == CHOOSE f : Def(f)
           W(k) == [it |-> start + Cut(parts, k), out |-> SubSeq(outs, 1, k)]
           w == [k \in 0..n |-> W(k)]
<1>1. ReadSnaps(data, start, n) = F[n]
    BY DEF ReadSnaps
<1>2. /\ parts \in Seq(Seq(Piece)) /\ Len(parts) = n /\ outs \in Seq(Nat \X Nat) /\ Len(outs) = n /\ n \in Nat
      /\ \A k \in 1..n : outs[k] \in Nat \X Nat /\ parts[k] = Snap(outs[k])
      /\ Holds(data, start, Stream(FlattenSeq(parts))) /\ start \in Nat
    BY SnapsTyped DEF Holds
<1>3. Stream(SnapsOf(e)) = Stream(FlattenSeq(parts))
    BY SnapsTyped
<1> HIDE DEF parts, outs, n
<1>4. W(0) = Start(start)
    BY <1>2, Cuts, OneMore DEF Start
<1>5. ASSUME NEW k \in 1..n PROVE NextSnap(data, W(k - 1)) = W(k)
    <2> DEFINE at == start + Cut(parts, k - 1)
               done == SubSeq(outs, 1, k - 1)
               s == outs[k]
    <2>1. Holds(data, at, Stream(Snap(s))) /\ s \in Nat \X Nat
        <3>1. k \in 1..Len(parts)
            BY <1>2
        <3>2. Holds(data, at, Stream(parts[k]))
            BY <1>2, <3>1, CutsFound
        <3>3. QED BY <1>2, <3>2
    <2>2. SubSeq(outs, 1, k) = Append(done, s)
        BY <1>2, OneMore
    <2>3. at + Len(Stream(Snap(s))) = start + Cut(parts, k)
        <3>1. k \in 1..Len(parts) /\ parts[k] = Snap(s)
            BY <1>2
        <3>2. /\ Cut(parts, k) = Cut(parts, k - 1) + Len(Stream(parts[k]))
              /\ Cut(parts, k - 1) \in Nat /\ Len(Stream(parts[k])) \in Nat
            BY <1>2, <3>1, Cuts
        <3> HIDE DEF s
        <3>3. QED BY <1>2, <3>1, <3>2
    <2>4. W(k - 1) = [it |-> at, out |-> done]
        OBVIOUS
    <2> HIDE DEF at, done, s, W
    <2>5. NextSnap(data, [it |-> at, out |-> done]) = [it |-> at + Len(Stream(Snap(s))), out |-> Append(done, s)]
        BY <2>1, SnapFound
    <2>6. QED BY <2>2, <2>3, <2>4, <2>5 DEF W
<1> HIDE DEF W
<1>6. w[0] = Start(start) /\ w[n] = W(n) /\ \A k \in 1..n : NextSnap(data, w[k - 1]) = w[k]
    BY <1>2, <1>4, <1>5
<1>7. Def(w)
    <2>1. ASSUME NEW k \in 0..n PROVE W(k) = IF k = 0 THEN Start(start) ELSE NextSnap(data, w[k - 1])
        <3>1. CASE k = 0
            BY <1>4, <3>1
        <3>2. CASE k # 0
            <4>1. k \in 1..n
                BY <1>2, <3>2
            <4>2. QED BY <1>6, <3>2, <4>1
        <3>3. QED BY <3>1, <3>2
    <2> DEFINE v == w
    <2>2. v = [k \in 0..n |-> W(k)]
        OBVIOUS
    <2>3. \A k \in 0..n : W(k) = IF k = 0 THEN Start(start) ELSE NextSnap(data, v[k - 1])
        BY <2>1
    <2> HIDE DEF v
    <2>4. v = [k \in 0..n |-> IF k = 0 THEN Start(start) ELSE NextSnap(data, v[k - 1])]
        BY <2>2, <2>3
    <2>5. QED BY <2>4 DEF v
<1> HIDE DEF w
<1>8. Def(F)
    <2> HIDE DEF Def
    <2>1. QED BY <1>7, Zenon
<1> HIDE DEF F
<1>9. F[0] = Start(start) /\ \A k \in 1..n : F[k] = NextSnap(data, F[k - 1])
    <2> DEFINE R(k) == IF k = 0 THEN Start(start) ELSE NextSnap(data, F[k - 1])
    <2>1. F = [k \in 0..n |-> R(k)]
        BY <1>8
    <2>2. R(0) = Start(start) /\ \A k \in 1..n : R(k) = NextSnap(data, F[k - 1])
        BY <1>2
    <2> HIDE DEF R
    <2>3. QED BY <1>2, <2>1, <2>2
<1>10. F[n] = w[n]
    <2>1. F[0] = w[0] /\ \A k \in 1..n : F[k - 1] = w[k - 1] => F[k] = w[k]
        BY <1>6, <1>9
    <2>2. QED BY <1>2, <2>1, LoopEnds
<1>11. W(n) = [it |-> start + Len(Stream(SnapsOf(e))), out |-> outs]
    <2>1. Cut(parts, n) = Len(Stream(FlattenSeq(parts))) /\ SubSeq(outs, 1, n) = outs
        BY <1>2, Cuts, OneMore
    <2>2. QED BY <1>3, <2>1 DEF W
<1>12. QED BY <1>1, <1>6, <1>10, <1>11 DEF n, outs

(* The snapshots of all the machines, and their numbers.                   *)
AllParts(list) == [i \in DOMAIN list |-> SnapsOf(list[i])]
AllSnaps(list) == [i \in DOMAIN list |-> list[i].snaps]
SnapCounts(list) == [i \in DOMAIN list |-> Len(list[i].snaps)]

(* All the snapshots, machine by machine, and their numbers.               *)
LEMMA AllSnapsTyped ==
    ASSUME NEW list \in Seq(Machine)
    PROVE  /\ AllParts(list) \in Seq(Seq(Piece)) /\ Len(AllParts(list)) = Len(list)
           /\ AllSnaps(list) \in Seq(Seq(Nat \X Nat)) /\ Len(AllSnaps(list)) = Len(list)
           /\ SnapCounts(list) \in Seq(Nat) /\ Len(SnapCounts(list)) = Len(list)
           /\ Snaps(list) = FlattenSeq(AllParts(list)) /\ Snaps(list) \in Seq(Piece)
           /\ Len(list) \in Nat /\ DOMAIN list = 1..Len(list)
           /\ \A i \in 1..Len(list) : /\ list[i] \in Machine /\ AllParts(list)[i] = SnapsOf(list[i])
                                      /\ AllSnaps(list)[i] = list[i].snaps
                                      /\ SnapCounts(list)[i] = Len(list[i].snaps)
<1>1. Len(list) \in Nat /\ DOMAIN list = 1..Len(list) /\ \A i \in 1..Len(list) : list[i] \in Machine
    BY LenProperties, ElementOfSeq
<1>2. AllParts(list) \in [1..Len(list) -> Seq(Piece)]
    BY <1>1, SnapsTyped DEF AllParts
<1>3. AllSnaps(list) \in [1..Len(list) -> Seq(Nat \X Nat)]
    BY <1>1, SnapsTyped DEF AllSnaps
<1>4. SnapCounts(list) \in [1..Len(list) -> Nat]
    BY <1>1, SnapsTyped DEF SnapCounts
<1>5. AllParts(list) \in Seq(Seq(Piece)) /\ Len(AllParts(list)) = Len(list)
    BY <1>1, <1>2, FunctionsAreSequences
<1>6. AllSnaps(list) \in Seq(Seq(Nat \X Nat)) /\ Len(AllSnaps(list)) = Len(list)
    BY <1>1, <1>3, FunctionsAreSequences
<1>7. SnapCounts(list) \in Seq(Nat) /\ Len(SnapCounts(list)) = Len(list)
    BY <1>1, <1>4, FunctionsAreSequences
<1>8. Snaps(list) = FlattenSeq(AllParts(list))
    BY DEF Snaps, AllParts
<1>9. Snaps(list) \in Seq(Piece)
    BY <1>5, <1>8, FlattenTyped
<1>10. QED BY <1>1, <1>5, <1>6, <1>7, <1>8, <1>9 DEF AllParts, AllSnaps, SnapCounts

(* The loop over the machines reads all their snapshots.                   *)
LEMMA AllSnapsFound ==
    ASSUME NEW data \in Seq(Byte), NEW start, NEW list \in Seq(Machine), Holds(data, start, Stream(Snaps(list)))
    PROVE  ReadAllSnaps(data, start, SnapCounts(list)).out = AllSnaps(list)
<1> DEFINE parts == AllParts(list)
           outs == AllSnaps(list)
           counts == SnapCounts(list)
           n == Len(list)
           X == Seq(Nat \X Nat)
           Def(f) == f = [i \in 0..Len(counts) |->
                             IF i = 0 THEN Start(start) ELSE NextSnaps(data, f[i - 1], counts[i])]
           F == CHOOSE f : Def(f)
           W(i) == [it |-> start + Cut(parts, i), out |-> SubSeq(outs, 1, i)]
           w == [i \in 0..n |-> W(i)]
<1>1. ReadAllSnaps(data, start, counts) = F[Len(counts)]
    BY DEF ReadAllSnaps
<1>2. /\ parts \in Seq(Seq(Piece)) /\ Len(parts) = n /\ outs \in Seq(X) /\ Len(outs) = n /\ n \in Nat
      /\ Len(counts) = n
      /\ \A i \in 1..n : /\ list[i] \in Machine /\ parts[i] = SnapsOf(list[i])
                         /\ outs[i] = list[i].snaps /\ counts[i] = Len(list[i].snaps)
      /\ Holds(data, start, Stream(FlattenSeq(parts))) /\ start \in Nat
    BY AllSnapsTyped DEF Holds
<1> HIDE DEF parts, outs, counts, n, X
<1>4. W(0) = Start(start)
    BY <1>2, Cuts, OneMore DEF Start
<1>5. ASSUME NEW i \in 1..n PROVE NextSnaps(data, W(i - 1), counts[i]) = W(i)
    <2> DEFINE at == start + Cut(parts, i - 1)
               done == SubSeq(outs, 1, i - 1)
               e == list[i]
    <2>1. Holds(data, at, Stream(SnapsOf(e))) /\ e \in Machine
        <3>1. i \in 1..Len(parts)
            BY <1>2
        <3>2. Holds(data, at, Stream(parts[i]))
            BY <1>2, <3>1, CutsFound
        <3>3. QED BY <1>2, <3>2
    <2>2. SubSeq(outs, 1, i) = Append(done, e.snaps)
        BY <1>2, OneMore
    <2>3. at + Len(Stream(SnapsOf(e))) = start + Cut(parts, i)
        <3>1. i \in 1..Len(parts) /\ parts[i] = SnapsOf(e)
            BY <1>2
        <3>2. /\ Cut(parts, i) = Cut(parts, i - 1) + Len(Stream(parts[i]))
              /\ Cut(parts, i - 1) \in Nat /\ Len(Stream(parts[i])) \in Nat
            BY <1>2, <3>1, Cuts
        <3> HIDE DEF e
        <3>3. QED BY <1>2, <3>1, <3>2
    <2>4. W(i - 1) = [it |-> at, out |-> done] /\ counts[i] = Len(e.snaps)
        BY <1>2
    <2> HIDE DEF at, done, e, W
    <2>5. ReadSnaps(data, at, Len(e.snaps)) = [it |-> at + Len(Stream(SnapsOf(e))), out |-> e.snaps]
        BY <2>1, SnapsFound
    <2>6. NextSnaps(data, [it |-> at, out |-> done], Len(e.snaps))
              = [it |-> at + Len(Stream(SnapsOf(e))), out |-> Append(done, e.snaps)]
        <3> DEFINE so == [it |-> at, out |-> done]
                   one == ReadSnaps(data, so.it, Len(e.snaps))
        <3>1. so.it = at /\ so.out = done
            OBVIOUS
        <3> HIDE DEF so
        <3>2. one.it = at + Len(Stream(SnapsOf(e))) /\ one.out = e.snaps
            BY <2>5, <3>1
        <3>3. NextSnaps(data, so, Len(e.snaps)) = [it |-> one.it, out |-> Append(so.out, one.out)]
            BY DEF NextSnaps
        <3> HIDE DEF one
        <3>4. QED BY <3>1, <3>2, <3>3 DEF so
    <2>7. QED BY <2>2, <2>3, <2>4, <2>6 DEF W
<1> HIDE DEF W
<1>6. w[0] = Start(start) /\ w[n] = W(n) /\ \A i \in 1..n : NextSnaps(data, w[i - 1], counts[i]) = w[i]
    BY <1>2, <1>4, <1>5
<1>7. Def(w)
    <2>1. ASSUME NEW i \in 0..n
          PROVE  W(i) = IF i = 0 THEN Start(start) ELSE NextSnaps(data, w[i - 1], counts[i])
        <3>1. CASE i = 0
            BY <1>4, <3>1
        <3>2. CASE i # 0
            <4>1. i \in 1..n
                BY <1>2, <3>2
            <4>2. QED BY <1>6, <3>2, <4>1
        <3>3. QED BY <3>1, <3>2
    <2> DEFINE v == w
    <2>2. v = [i \in 0..n |-> W(i)]
        OBVIOUS
    <2>3. \A i \in 0..n : W(i) = IF i = 0 THEN Start(start) ELSE NextSnaps(data, v[i - 1], counts[i])
        BY <2>1
    <2> HIDE DEF v
    <2>4. v = [i \in 0..n |-> IF i = 0 THEN Start(start) ELSE NextSnaps(data, v[i - 1], counts[i])]
        BY <2>2, <2>3
    <2>5. QED BY <1>2, <2>4 DEF v
<1> HIDE DEF w
<1>8. Def(F)
    <2> HIDE DEF Def
    <2>1. QED BY <1>7, Zenon
<1> HIDE DEF F
<1>9. F[0] = Start(start) /\ \A i \in 1..n : F[i] = NextSnaps(data, F[i - 1], counts[i])
    <2> DEFINE R(i) == IF i = 0 THEN Start(start) ELSE NextSnaps(data, F[i - 1], counts[i])
    <2>1. F = [i \in 0..n |-> R(i)]
        BY <1>2, <1>8
    <2>2. R(0) = Start(start) /\ \A i \in 1..n : R(i) = NextSnaps(data, F[i - 1], counts[i])
        BY <1>2
    <2> HIDE DEF R
    <2>3. QED BY <1>2, <2>1, <2>2
<1>10. F[n] = w[n]
    <2>1. F[0] = w[0] /\ \A i \in 1..n : F[i - 1] = w[i - 1] => F[i] = w[i]
        BY <1>6, <1>9
    <2>2. QED BY <1>2, <2>1, LoopEnds
<1>11. W(n).out = outs
    BY <1>2, OneMore DEF W
<1>12. QED BY <1>1, <1>2, <1>6, <1>10, <1>11 DEF counts, outs

-----------------------------------------------------------------------------
(* The sizes summed up beforehand are those of what is written.            *)
LEMMA EntriesSize ==
    ASSUME NEW list \in Seq(Machine)
    PROVE  /\ Total([i \in DOMAIN list |-> SizeOf.app_status + list[i].name]) = Len(Stream(Entries(list)))
           /\ Len(Stream(Entries(list))) \in Nat
<1> DEFINE ns == [i \in DOMAIN list |-> SizeOf.app_status + list[i].name]
           parts == EntryParts(list)
<1>1. /\ parts \in Seq(Seq(Piece)) /\ Len(parts) = Len(list) /\ Entries(list) = FlattenSeq(parts)
      /\ Len(list) \in Nat /\ DOMAIN list = 1..Len(list)
      /\ \A i \in 1..Len(list) : list[i] \in Machine /\ parts[i] = Entry(list[i])
    BY EntriesTyped
<1>2. \A i \in 1..Len(list) : /\ Len(Stream(Entry(list[i]))) = SizeOf.app_status + list[i].name
                              /\ SizeOf.app_status + list[i].name \in Nat
    <2>1. ASSUME NEW e \in Machine
          PROVE  /\ Len(Stream(Entry(e))) = SizeOf.app_status + e.name
                 /\ SizeOf.app_status + e.name \in Nat
        <3>1. Len(Stream(Entry(e))) = SizeOf.app_status + e.name /\ e.name \in Nat
            BY EntryTyped
        <3>2. SizeOf.app_status \in Nat
            BY Sizes
        <3>3. QED BY <3>1, <3>2
    <2>2. QED BY <1>1, <2>1
<1>3. ns \in [1..Len(list) -> Nat]
    BY <1>1, <1>2
<1>4. \A i \in 1..Len(parts) : ns[i] = Len(Stream(parts[i]))
    BY <1>1, <1>2
<1> HIDE DEF ns, parts
<1>5. ns \in Seq(Nat) /\ Len(ns) = Len(parts)
    BY <1>1, <1>3, FunctionsAreSequences
<1>6. Total(ns) = Len(Stream(FlattenSeq(parts))) /\ Len(Stream(FlattenSeq(parts))) \in Nat
    BY <1>1, <1>4, <1>5, TotalOfLengths
<1>7. QED BY <1>1, <1>6 DEF ns

(* The same of the snapshots of a machine.                                 *)
LEMMA SnapsSizes ==
    ASSUME NEW e \in Machine
    PROVE  SnapsSize(e) = Len(Stream(SnapsOf(e))) /\ Len(Stream(SnapsOf(e))) \in Nat
<1> DEFINE snaps == e.snaps
           ns == [k \in DOMAIN snaps |-> SizeOf.app_status + snaps[k][1] + snaps[k][2]]
           parts == SnapParts(e)
<1>1. /\ parts \in Seq(Seq(Piece)) /\ Len(parts) = Len(snaps) /\ SnapsOf(e) = FlattenSeq(parts)
      /\ Len(snaps) \in Nat /\ DOMAIN snaps = 1..Len(snaps)
      /\ \A k \in 1..Len(snaps) : snaps[k] \in Nat \X Nat /\ parts[k] = Snap(snaps[k])
    BY SnapsTyped
<1>2. \A k \in 1..Len(snaps) : /\ Len(Stream(Snap(snaps[k]))) = SizeOf.app_status + snaps[k][1] + snaps[k][2]
                               /\ SizeOf.app_status + snaps[k][1] + snaps[k][2] \in Nat
    <2>1. ASSUME NEW s \in Nat \X Nat
          PROVE  /\ Len(Stream(Snap(s))) = SizeOf.app_status + s[1] + s[2]
                 /\ SizeOf.app_status + s[1] + s[2] \in Nat
        <3>1. Len(Stream(Snap(s))) = SizeOf.app_status + s[1] + s[2] /\ s[1] \in Nat /\ s[2] \in Nat
            BY SnapTyped
        <3>2. SizeOf.app_status \in Nat
            BY Sizes
        <3>3. QED BY <3>1, <3>2
    <2>2. QED BY <1>1, <2>1
<1> HIDE DEF snaps
<1>3. ns \in [1..Len(snaps) -> Nat]
    BY <1>1, <1>2
<1>4. \A k \in 1..Len(parts) : ns[k] = Len(Stream(parts[k]))
    BY <1>1, <1>2
<1>5. SnapsSize(e) = Total(ns)
    BY DEF SnapsSize, snaps
<1> HIDE DEF ns, parts
<1>6. ns \in Seq(Nat) /\ Len(ns) = Len(parts)
    BY <1>1, <1>3, FunctionsAreSequences
<1>7. Total(ns) = Len(Stream(FlattenSeq(parts))) /\ Len(Stream(FlattenSeq(parts))) \in Nat
    BY <1>1, <1>4, <1>6, TotalOfLengths
<1>8. QED BY <1>1, <1>5, <1>7

(* The same of all the snapshots.                                          *)
LEMMA AllSnapsSizes ==
    ASSUME NEW list \in Seq(Machine)
    PROVE  AllSnapsSize(list) = Len(Stream(Snaps(list))) /\ Len(Stream(Snaps(list))) \in Nat
<1> DEFINE ns == [i \in DOMAIN list |-> SnapsSize(list[i])]
           parts == AllParts(list)
<1>1. /\ parts \in Seq(Seq(Piece)) /\ Len(parts) = Len(list) /\ Snaps(list) = FlattenSeq(parts)
      /\ Len(list) \in Nat /\ DOMAIN list = 1..Len(list)
      /\ \A i \in 1..Len(list) : list[i] \in Machine /\ parts[i] = SnapsOf(list[i])
    BY AllSnapsTyped
<1>2. \A i \in 1..Len(list) : SnapsSize(list[i]) = Len(Stream(SnapsOf(list[i]))) /\ SnapsSize(list[i]) \in Nat
    BY <1>1, SnapsSizes
<1>3. ns \in [1..Len(list) -> Nat]
    BY <1>1, <1>2
<1>4. \A i \in 1..Len(parts) : ns[i] = Len(Stream(parts[i]))
    BY <1>1, <1>2
<1>5. AllSnapsSize(list) = Total(ns)
    BY DEF AllSnapsSize
<1> HIDE DEF ns, parts
<1>6. ns \in Seq(Nat) /\ Len(ns) = Len(parts)
    BY <1>1, <1>3, FunctionsAreSequences
<1>7. Total(ns) = Len(Stream(FlattenSeq(parts))) /\ Len(Stream(FlattenSeq(parts))) \in Nat
    BY <1>1, <1>4, <1>6, TotalOfLengths
<1>8. QED BY <1>1, <1>5, <1>7

(* What makes a message arrive: its pieces are as long as its header says, *)
(* and the reader makes the same message of them.                          *)
Arrives(m) ==
    /\ Pieces(m) \in Seq(Piece)
    /\ Stream(Pieces(m)) \in Seq(Byte)
    /\ AnnouncedSize(m) = Len(Stream(Pieces(m))) /\ AnnouncedSize(m) \in Nat
    /\ Decode(m.type, Stream(Pieces(m))) = m
    /\ m.type \in MessageTypes

(* A message that is one structure, or none.                               *)
LEMMA StructArrives ==
    ASSUME NEW p \in Piece, p.is \in Kinds
    PROVE  /\ <<p>> \in Seq(Piece) /\ Stream(<<p>>) \in Seq(Byte)
           /\ Len(Stream(<<p>>)) = SizeOf[p.is] /\ SizeOf[p.is] \in Nat
           /\ StructAt(Stream(<<p>>), 0, p.is) = p
<1>1. Stream(<<p>>) = Memory(p) /\ Memory(p) \in Seq(Byte) /\ Len(Memory(p)) = SizeOf[p.is]
    BY StreamOne, MemoryTypes, PieceSizes
<1>2. SizeOf[p.is] \in Nat
    BY Sizes
<1>3. Holds(Memory(p), 0, Memory(p))
    BY <1>1, HoldsItself
<1>4. StructAt(Memory(p), 0, p.is) = p
    BY <1>1, <1>3, StructFound
<1>5. QED BY <1>1, <1>2, <1>4

(* A message that is one status arrives.                                   *)
LEMMA StatusArrives ==
    ASSUME NEW m \in [type : {"MAIN_STATUS", "START_SIM"}, status : STRING]
    PROVE  Arrives(m)
<1>1. m.status \in Word /\ m.type \in MessageTypes /\ m = [type |-> m.type, status |-> m.status]
    BY DEF Word, MessageTypes
<1>2. CASE m.type = "MAIN_STATUS"
    <2> DEFINE p == MainStatus(m.status)
               data == Stream(<<p>>)
    <2>1. p \in Piece /\ p.is = "main_status" /\ p.status = m.status
        BY <1>1, PieceTypes DEF MainStatus
    <2>2. Pieces(m) = <<p>> /\ AnnouncedSize(m) = SizeOf.main_status
        BY <1>2 DEF Pieces, AnnouncedSize, AnnouncedSizeWith
    <2> HIDE DEF p
    <2>3. /\ <<p>> \in Seq(Piece) /\ data \in Seq(Byte) /\ Len(data) = SizeOf.main_status
          /\ SizeOf.main_status \in Nat /\ StructAt(data, 0, "main_status") = p
        BY <2>1, StructArrives DEF Kinds
    <2> HIDE DEF data
    <2>4. Decode(m.type, data) = m
        BY <1>1, <1>2, <2>1, <2>3 DEF Decode
    <2>5. QED BY <1>1, <2>2, <2>3, <2>4 DEF Arrives, data
<1>3. CASE m.type = "START_SIM"
    <2> DEFINE p == Config(m.status)
               data == Stream(<<p>>)
    <2>1. p \in Piece /\ p.is = "config_message" /\ p.status = m.status
        BY <1>1, PieceTypes DEF Config
    <2>2. Pieces(m) = <<p>> /\ AnnouncedSize(m) = SizeOf.config_message
        BY <1>3 DEF Pieces, AnnouncedSize, AnnouncedSizeWith
    <2> HIDE DEF p
    <2>3. /\ <<p>> \in Seq(Piece) /\ data \in Seq(Byte) /\ Len(data) = SizeOf.config_message
          /\ SizeOf.config_message \in Nat /\ StructAt(data, 0, "config_message") = p
        BY <2>1, StructArrives DEF Kinds
    <2> HIDE DEF data
    <2>4. Decode(m.type, data) = m
        BY <1>1, <1>3, <2>1, <2>3 DEF Decode
    <2>5. QED BY <1>1, <2>2, <2>3, <2>4 DEF Arrives, data
<1>4. QED BY <1>2, <1>3

(* A command, which is its header only, arrives.                           *)
LEMMA CommandArrives ==
    ASSUME NEW m \in [type : {"TAKE_CONTROL", "STOP_SIM", "PLAY_SIMICS", "PAUSE_SIMICS"}]
    PROVE  Arrives(m)
<1>1. /\ m.type \in {"TAKE_CONTROL", "STOP_SIM", "PLAY_SIMICS", "PAUSE_SIMICS"}
      /\ m.type \in MessageTypes /\ m = [type |-> m.type]
    BY DEF MessageTypes
<1>2. Pieces(m) = << >> /\ AnnouncedSize(m) = 0
    BY <1>1 DEF Pieces, AnnouncedSize, AnnouncedSizeWith
<1>3. Decode(m.type, << >>) = m
    BY <1>1 DEF Decode
<1>4. << >> \in Seq(Piece) /\ << >> \in Seq(Byte) /\ Len(<< >>) = 0
    OBVIOUS
<1>5. Pieces(m) \in Seq(Piece) /\ Stream(Pieces(m)) = << >>
    BY <1>2, <1>4, StreamNone
<1> DEFINE data == Stream(Pieces(m))
<1>6. data \in Seq(Byte) /\ AnnouncedSize(m) = Len(data) /\ AnnouncedSize(m) \in Nat
    <2>1. data = << >>
        BY <1>5
    <2> HIDE DEF data
    <2>2. QED BY <1>2, <1>4, <2>1
<1>7. Decode(m.type, data) = m
    BY <1>3, <1>5
<1> HIDE DEF data
<1>8. QED BY <1>1, <1>5, <1>6, <1>7 DEF Arrives, data

-----------------------------------------------------------------------------
(* The part that both lists begin with: the number of entries, and they.   *)
Listed(list) == <<TotalApps(Len(list))>> \o Entries(list)

(* If that part is where the data begin, it is read, and what is read ends *)
(* where it ends.                                                          *)
LEMMA ListedFound ==
    ASSUME NEW list \in Seq(Machine)
    PROVE  /\ Listed(list) \in Seq(Piece) /\ Stream(Listed(list)) \in Seq(Byte)
           /\ Len(Stream(Listed(list))) = ListSize(list) /\ ListSize(list) \in Nat
           /\ \A data \in Seq(Byte) :
                  Holds(data, 0, Stream(Listed(list))) =>
                      /\ StructAt(data, 0, "total_apps").size = Len(list)
                      /\ ReadEntries(data, SizeOf.total_apps, Len(list))
                             = [it |-> ListSize(list), out |-> EntriesRead(list)]
<1> DEFINE p == TotalApps(Len(list))
           a == Memory(p)
           b == Stream(Entries(list))
           z == SizeOf.total_apps
<1>1. p \in Piece /\ p.is = "total_apps" /\ p.size = Len(list) /\ Len(list) \in Nat /\ "total_apps" \in Kinds
    BY LenProperties, PieceTypes DEF TotalApps, Kinds
<1>2. Entries(list) \in Seq(Piece) /\ Listed(list) = <<p>> \o Entries(list)
    BY EntriesTyped DEF Listed
<1> HIDE DEF p
<1>3. <<p>> \in Seq(Piece) /\ Stream(<<p>>) = a /\ a \in Seq(Byte) /\ Len(a) = z /\ z \in Nat
    <2>1. <<p>> \in Seq(Piece) /\ Stream(<<p>>) = Memory(p)
        BY <1>1, StreamOne
    <2>2. Memory(p) \in Seq(Byte) /\ Len(Memory(p)) = SizeOf.total_apps
        BY <1>1, MemoryTypes, PieceSizes
    <2>3. SizeOf.total_apps \in Nat
        BY Sizes
    <2>4. QED BY <2>1, <2>2, <2>3
<1>4. b \in Seq(Byte) /\ ListSize(list) = z + Len(b) /\ Len(b) \in Nat
    BY <1>2, StreamTyped, EntriesSize DEF ListSize
<1>5. Stream(Listed(list)) = a \o b /\ Listed(list) \in Seq(Piece)
    <2> DEFINE es == Entries(list)
               one == <<p>>
    <2>1. es \in Seq(Piece) /\ one \in Seq(Piece) /\ Listed(list) = one \o es /\ Stream(one) = a
        BY <1>2, <1>3
    <2> HIDE DEF es, one
    <2>2. Stream(one \o es) = Stream(one) \o Stream(es)
        BY <2>1, StreamJoin
    <2>3. one \o es \in Seq(Piece)
        BY <2>1, ConcatProperties
    <2>4. QED BY <2>1, <2>2, <2>3 DEF es
<1>6. ASSUME NEW data \in Seq(Byte), Holds(data, 0, Stream(Listed(list)))
      PROVE  /\ StructAt(data, 0, "total_apps").size = Len(list)
             /\ ReadEntries(data, SizeOf.total_apps, Len(list))
                    = [it |-> ListSize(list), out |-> EntriesRead(list)]
    <2>1. Holds(data, 0, a) /\ Holds(data, z, b)
        <3>1. Holds(data, 0, a \o b)
            BY <1>5, <1>6
        <3> HIDE DEF a, b, z
        <3>2. Holds(data, 0, a) /\ Holds(data, 0 + Len(a), b)
            BY <1>3, <1>4, <3>1, HoldsParts
        <3>3. 0 + Len(a) = z
            BY <1>3
        <3>4. QED BY <3>2, <3>3
    <2>2. StructAt(data, 0, "total_apps") = p
        BY <1>1, <2>1, StructFound
    <2>3. ReadEntries(data, z, Len(list)) = [it |-> z + Len(b), out |-> EntriesRead(list)]
        <3> HIDE DEF z
        <3>1. QED BY <2>1, EntriesFound
    <2>4. QED BY <1>1, <1>4, <2>2, <2>3
<1> HIDE DEF a, b, z
<1>7. a \o b \in Seq(Byte) /\ Len(a \o b) = Len(a) + Len(b)
    BY <1>3, <1>4, ConcatProperties
<1>8. Len(Stream(Listed(list))) = ListSize(list) /\ ListSize(list) \in Nat
    BY <1>3, <1>4, <1>5, <1>7
<1>9. QED BY <1>5, <1>6, <1>7, <1>8

(* A list of applications arrives.                                         *)
LEMMA AppsArrive ==
    ASSUME NEW m \in [type : {"APP_INITIAL_STATUS"}, list : Seq(Application)]
    PROVE  Arrives(m)
<1> DEFINE list == m.list
           data == Stream(Listed(list))
           apps == EntriesRead(list)
<1>1. m.type = "APP_INITIAL_STATUS" /\ m.type \in MessageTypes /\ m = [type |-> m.type, list |-> list]
      /\ list \in Seq(Application)
    BY DEF MessageTypes
<1> HIDE DEF list
<1>2. /\ list \in Seq(Machine) /\ Len(list) \in Nat /\ DOMAIN list = 1..Len(list)
      /\ \A i \in 1..Len(list) : list[i] \in Application
      /\ list = [i \in 1..Len(list) |-> list[i]]
    <2>1. \A e \in Application : e \in Machine
        <3>1. ASSUME NEW e \in Application PROVE e \in Machine
            <4>1. /\ e = [name |-> e.name, status |-> e.status, snaps |-> e.snaps]
                  /\ e.name \in Nat /\ e.status \in STRING /\ e.snaps = << >>
                BY DEF Application
            <4>2. << >> \in Seq(Nat \X Nat)
                OBVIOUS
            <4>3. QED BY <4>1, <4>2 DEF Machine
        <3>2. QED BY <3>1
    <2>2. QED BY <1>1, <2>1, LenProperties, ElementOfSeq
<1>3. Pieces(m) = Listed(list) /\ AnnouncedSize(m) = ListSize(list)
    BY <1>1 DEF Pieces, AnnouncedSize, AnnouncedSizeWith, Listed, list
<1>4. /\ Listed(list) \in Seq(Piece) /\ data \in Seq(Byte)
      /\ Len(data) = ListSize(list) /\ ListSize(list) \in Nat
    BY <1>2, ListedFound
<1>5. /\ StructAt(data, 0, "total_apps").size = Len(list)
      /\ ReadEntries(data, SizeOf.total_apps, Len(list)).out = apps
    <2>1. Holds(data, 0, data)
        BY <1>4, HoldsItself
    <2>2. \A d \in Seq(Byte) :
              Holds(d, 0, Stream(Listed(list))) =>
                  /\ StructAt(d, 0, "total_apps").size = Len(list)
                  /\ ReadEntries(d, SizeOf.total_apps, Len(list))
                         = [it |-> ListSize(list), out |-> EntriesRead(list)]
        BY <1>2, ListedFound
    <2>3. Holds(data, 0, Stream(Listed(list)))
        BY <2>1
    <2> HIDE DEF data
    <2>4. QED BY <1>4, <2>2, <2>3
<1>6. /\ DOMAIN apps = 1..Len(list)
      /\ \A i \in 1..Len(list) : apps[i].name = list[i].name /\ apps[i].status = list[i].status
    BY <1>2 DEF EntriesRead, EntryRead
<1>7. \A i \in 1..Len(list) : list[i] = [name |-> list[i].name, status |-> list[i].status, snaps |-> << >>]
    BY <1>2 DEF Application
<1> HIDE DEF data, apps
<1>8. [i \in DOMAIN apps |-> [name |-> apps[i].name, status |-> apps[i].status, snaps |-> << >>]] = list
    <2>1. [i \in DOMAIN apps |-> [name |-> apps[i].name, status |-> apps[i].status, snaps |-> << >>]]
              = [i \in 1..Len(list) |-> list[i]]
        BY <1>6, <1>7
    <2>2. QED BY <1>2, <2>1
<1>9. Decode("APP_INITIAL_STATUS", data)
          = [type |-> "APP_INITIAL_STATUS",
             list |-> [i \in DOMAIN apps |->
                          [name |-> apps[i].name, status |-> apps[i].status, snaps |-> << >>]]]
    BY <1>5 DEF Decode
<1>10. Decode(m.type, data) = m
    BY <1>1, <1>8, <1>9
<1>11. QED BY <1>1, <1>3, <1>4, <1>10 DEF Arrives, data

(* How many snapshots follow: a structure, and the numbers.                *)
Counted(list) == <<TotalSnaps(Len(list)), Counts(SnapCounts(list))>>

(* The numbers are read if they are there.                                 *)
LEMMA CountedFound ==
    ASSUME NEW list \in Seq(Machine)
    PROVE  /\ Counted(list) \in Seq(Piece) /\ Stream(Counted(list)) \in Seq(Byte)
           /\ Len(Stream(Counted(list))) = SizeOf.total_vm_snapshots + Len(list) * SizeOf.uint32
           /\ Len(list) * SizeOf.uint32 \in Nat
           /\ \A data \in Seq(Byte), it \in Nat :
                  Holds(data, it, Stream(Counted(list))) =>
                      /\ StructAt(data, it, "total_vm_snapshots").size = Len(list)
                      /\ CountsAt(data, it + SizeOf.total_vm_snapshots, Len(list)) = SnapCounts(list)
<1> DEFINE ns == SnapCounts(list)
           n == Len(list)
           p == TotalSnaps(n)
           q == Counts(ns)
           a == Memory(p)
           b == Memory(q)
           z == SizeOf.total_vm_snapshots
           w == n * SizeOf.uint32
<1>1. ns \in Seq(Nat) /\ Len(ns) = n /\ n \in Nat
    BY AllSnapsTyped
<1> HIDE DEF ns
<1>2. p \in Piece /\ p.is = "total_vm_snapshots" /\ p.size = n
    <2> HIDE DEF n
    <2>1. QED BY <1>1, PieceTypes DEF TotalSnaps
<1>3. q \in Piece /\ q.is = "counts" /\ q.counts = ns
    BY <1>1, PieceTypes DEF Counts
<1>4. Counted(list) = <<p>> \o <<q>>
    BY DEF Counted, ns
<1> HIDE DEF p, q, n
<1>5. w \in Nat
    BY <1>1, Sizes
<1>6. a \in Seq(Byte) /\ Len(a) = z /\ z \in Nat
    BY <1>2, MemoryTypes, PieceSizes, Sizes DEF Kinds
<1>7. b \in Seq(Byte) /\ Len(b) = w
    BY <1>1, <1>3, MemoryTypes, PieceSizes
<1>8. <<p>> \in Seq(Piece) /\ <<q>> \in Seq(Piece) /\ <<p>> \o <<q>> \in Seq(Piece)
    BY <1>2, <1>3
<1>9. Stream(Counted(list)) = a \o b
    BY <1>2, <1>3, <1>4, <1>8, StreamJoin, StreamOne
<1>10. ASSUME NEW data \in Seq(Byte), NEW it \in Nat, Holds(data, it, Stream(Counted(list)))
       PROVE  /\ StructAt(data, it, "total_vm_snapshots").size = n
              /\ CountsAt(data, it + z, n) = ns
    <2>1. Holds(data, it, a) /\ Holds(data, it + z, b)
        <3>1. Holds(data, it, a \o b)
            BY <1>9, <1>10
        <3> HIDE DEF a, b, z
        <3>2. Holds(data, it, a) /\ Holds(data, it + Len(a), b)
            BY <1>6, <1>7, <3>1, HoldsParts
        <3>3. QED BY <1>6, <3>2
    <2>2. StructAt(data, it, "total_vm_snapshots") = p
        BY <1>2, <2>1, StructFound DEF Kinds
    <2>3. CountsAt(data, it + z, Len(ns)) = ns
        <3> HIDE DEF z
        <3>1. QED BY <1>1, <2>1, CountsFound DEF q
    <2>4. QED BY <1>1, <1>2, <2>2, <2>3
<1> HIDE DEF a, b, z, w
<1>11. a \o b \in Seq(Byte) /\ Len(a \o b) = Len(a) + Len(b)
    BY <1>6, <1>7, ConcatProperties
<1>12. Len(Stream(Counted(list))) = z + w
    BY <1>6, <1>7, <1>9, <1>11
<1>13. QED BY <1>4, <1>5, <1>8, <1>9, <1>10, <1>11, <1>12 DEF n, ns, z, w

(* A list of machines with their snapshots arrives.                        *)
LEMMA MachinesArrive ==
    ASSUME NEW m \in [type : {"VM_LIST"}, list : Seq(Machine)]
    PROVE  Arrives(m)
<1> DEFINE list == m.list
           n == Len(list)
           l == Listed(list)
           c == Counted(list)
           s == Snaps(list)
           sl == Stream(l)
           sc == Stream(c)
           ss == Stream(s)
           lc == sl \o sc
           data == lc \o ss
           here == ListSize(list)
           z == SizeOf.total_vm_snapshots
           w == n * SizeOf.uint32
<1>1. m.type = "VM_LIST" /\ m.type \in MessageTypes /\ m = [type |-> m.type, list |-> list]
      /\ list \in Seq(Machine)
    BY DEF MessageTypes
<1>2. Pieces(m) = (l \o c) \o s
    BY <1>1 DEF Pieces, Listed, Counted, SnapCounts
<1>3. AnnouncedSize(m) = here + z + w + AllSnapsSize(list)
    BY <1>1 DEF AnnouncedSize, AnnouncedSizeWith
<1> HIDE DEF list
<1>4. /\ n \in Nat /\ DOMAIN list = 1..n /\ \A i \in 1..n : list[i] \in Machine
      /\ list = [i \in 1..n |-> list[i]]
    BY <1>1, LenProperties, ElementOfSeq
<1>5. /\ l \in Seq(Piece) /\ sl \in Seq(Byte) /\ Len(sl) = here /\ here \in Nat
      /\ \A d \in Seq(Byte) :
             Holds(d, 0, sl) => /\ StructAt(d, 0, "total_apps").size = n
                                /\ ReadEntries(d, SizeOf.total_apps, n) = [it |-> here, out |-> EntriesRead(list)]
    BY <1>1, ListedFound
<1>6. /\ c \in Seq(Piece) /\ sc \in Seq(Byte) /\ Len(sc) = z + w /\ w \in Nat
      /\ \A d \in Seq(Byte), it \in Nat :
             Holds(d, it, sc) => /\ StructAt(d, it, "total_vm_snapshots").size = n
                                 /\ CountsAt(d, it + z, n) = SnapCounts(list)
    BY <1>1, CountedFound
<1>7. s \in Seq(Piece) /\ ss \in Seq(Byte) /\ AllSnapsSize(list) = Len(ss) /\ Len(ss) \in Nat
    BY <1>1, AllSnapsTyped, AllSnapsSizes, StreamTyped
<1>8. z \in Nat
    BY Sizes
<1>9. l \o c \in Seq(Piece) /\ Pieces(m) \in Seq(Piece) /\ Stream(Pieces(m)) = data
    <2> HIDE DEF l, c, s
    <2>1. l \o c \in Seq(Piece)
        BY <1>5, <1>6, ConcatProperties
    <2>2. (l \o c) \o s \in Seq(Piece)
        BY <1>7, <2>1, ConcatProperties
    <2>3. Stream(l \o c) = sl \o sc
        BY <1>5, <1>6, StreamJoin
    <2>4. Stream((l \o c) \o s) = Stream(l \o c) \o ss
        BY <1>7, <2>1, StreamJoin
    <2>5. QED BY <1>2, <2>1, <2>2, <2>3, <2>4
<1> HIDE DEF n, l, c, s, sl, sc, ss, z, w, here
<1>10. lc \in Seq(Byte) /\ Len(lc) = here + (z + w)
    <2>1. lc \in Seq(Byte) /\ Len(lc) = Len(sl) + Len(sc)
        BY <1>5, <1>6, ConcatProperties
    <2>2. QED BY <1>5, <1>6, <2>1
<1>11. data \in Seq(Byte) /\ Len(data) = Len(lc) + Len(ss)
    <2> HIDE DEF lc
    <2>1. lc \in Seq(Byte) /\ ss \in Seq(Byte)
        BY <1>7, <1>10
    <2>2. QED BY <2>1, ConcatProperties
<1>12. Holds(data, 0, sl) /\ Holds(data, here, sc) /\ Holds(data, here + z + w, ss)
    <2> HIDE DEF lc, data
    <2>1. Holds(data, 0, data)
        BY <1>11, HoldsItself
    <2>2. Holds(data, 0, lc) /\ Holds(data, 0 + Len(lc), ss)
        BY <1>7, <1>10, <1>11, <2>1, HoldsParts DEF data
    <2>3. Holds(data, 0, sl) /\ Holds(data, 0 + Len(sl), sc)
        BY <1>5, <1>6, <1>11, <2>2, HoldsParts DEF lc
    <2>4. 0 + Len(lc) = here + z + w /\ 0 + Len(sl) = here
        BY <1>5, <1>6, <1>8, <1>10
    <2>5. QED BY <2>2, <2>3, <2>4
<1> HIDE DEF data
<1> DEFINE vms == ReadEntries(data, SizeOf.total_apps, StructAt(data, 0, "total_apps").size)
           number == StructAt(data, vms.it, "total_vm_snapshots").size
           sizes == vms.it + SizeOf.total_vm_snapshots
           snaps == ReadAllSnaps(data, sizes + number * SizeOf.uint32, CountsAt(data, sizes, number)).out
<1>13. vms.it = here /\ vms.out = EntriesRead(list)
    BY <1>5, <1>11, <1>12
<1>14. number = n /\ sizes = here + z /\ number * SizeOf.uint32 = w
    <2> HIDE DEF vms
    <2>1. number = n
        BY <1>5, <1>6, <1>11, <1>12, <1>13
    <2>2. QED BY <1>13, <2>1 DEF z, w
<1>15. snaps = AllSnaps(list)
    <2> HIDE DEF vms, number, sizes
    <2>1. CountsAt(data, sizes, number) = SnapCounts(list)
        BY <1>5, <1>6, <1>11, <1>12, <1>14
    <2>2. sizes + number * SizeOf.uint32 = here + z + w
        BY <1>14
    <2>3. ReadAllSnaps(data, here + z + w, SnapCounts(list)).out = AllSnaps(list)
        BY <1>1, <1>11, <1>12, AllSnapsFound DEF ss, s
    <2>4. QED BY <2>1, <2>2, <2>3
<1>16. Decode("VM_LIST", data)
           = IF Len(snaps) = Len(vms.out)
             THEN [type |-> "VM_LIST",
                   list |-> [i \in DOMAIN snaps |-> [name |-> vms.out[i].name, status |-> vms.out[i].status,
                                                     snaps |-> snaps[i]]]]
             ELSE Rejected
    BY DEF Decode
<1> HIDE DEF vms, number, sizes, snaps
<1>17. /\ Len(snaps) = n /\ Len(vms.out) = n /\ DOMAIN snaps = 1..n
       /\ \A i \in 1..n : /\ vms.out[i].name = list[i].name /\ vms.out[i].status = list[i].status
                          /\ snaps[i] = list[i].snaps
    <2>1. Len(snaps) = n /\ Len(vms.out) = n
        BY <1>1, <1>13, <1>15, AllSnapsTyped, EntriesTyped DEF n
    <2>2. DOMAIN snaps = 1..n /\ \A i \in 1..n : snaps[i] = list[i].snaps
        BY <1>4, <1>15 DEF AllSnaps
    <2>3. \A i \in 1..n : vms.out[i].name = list[i].name /\ vms.out[i].status = list[i].status
        BY <1>4, <1>13 DEF EntriesRead, EntryRead
    <2>4. QED BY <2>1, <2>2, <2>3
<1>18. \A i \in 1..n : list[i] = [name |-> list[i].name, status |-> list[i].status, snaps |-> list[i].snaps]
    BY <1>4 DEF Machine
<1>19. [i \in DOMAIN snaps |-> [name |-> vms.out[i].name, status |-> vms.out[i].status, snaps |-> snaps[i]]] = list
    <2>1. [i \in DOMAIN snaps |-> [name |-> vms.out[i].name, status |-> vms.out[i].status, snaps |-> snaps[i]]]
              = [i \in 1..n |-> list[i]]
        BY <1>17, <1>18
    <2>2. QED BY <1>4, <2>1
<1>20. Decode(m.type, data) = m
    BY <1>1, <1>16, <1>17, <1>19
<1>21. AnnouncedSize(m) = Len(data) /\ AnnouncedSize(m) \in Nat
    BY <1>3, <1>5, <1>6, <1>7, <1>8, <1>10, <1>11
<1>22. QED BY <1>1, <1>9, <1>11, <1>20, <1>21 DEF Arrives

(* Every message arrives: for every list of either kind, with names and    *)
(* descriptions of every length, empty ones included.                      *)
THEOREM MessagesArrive == \A m \in Message : Arrives(m)
<1>1. ASSUME NEW m \in Message PROVE Arrives(m)
    <2>1. CASE m \in [type : {"MAIN_STATUS", "START_SIM"}, status : STRING]
        BY <2>1, StatusArrives
    <2>2. CASE m \in [type : {"TAKE_CONTROL", "STOP_SIM", "PLAY_SIMICS", "PAUSE_SIMICS"}]
        BY <2>2, CommandArrives
    <2>3. CASE m \in [type : {"APP_INITIAL_STATUS"}, list : Seq(Application)]
        BY <2>3, AppsArrive
    <2>4. CASE m \in [type : {"VM_LIST"}, list : Seq(Machine)]
        BY <2>4, MachinesArrive
    <2>5. QED BY <2>1, <2>2, <2>3, <2>4 DEF Message
<1>2. QED BY <1>1

-----------------------------------------------------------------------------
(* A message with its header, and the bytes of several messages.           *)
Header(m) == HostMessage(m.type, AnnouncedSize(m))
Whole(m) == Memory(Header(m)) \o Stream(Pieces(m))
WholeOf == [m \in Message |-> Whole(m)]
AllBytes(ms) == FlattenSeq(Image(WholeOf, ms))

(* A message with its header is the stream of its pieces.                  *)
LEMMA WholeTyped ==
    ASSUME NEW m \in Message
    PROVE  /\ Header(m) \in Piece /\ Header(m).is = "host_message" /\ Header(m) # NoHeader
           /\ Header(m).message = m.type /\ Header(m).size = AnnouncedSize(m)
           /\ Memory(Header(m)) \in Seq(Byte) /\ Len(Memory(Header(m))) = SizeOf.host_message
           /\ Whole(m) \in Seq(Byte)
           /\ <<Header(m)>> \o Pieces(m) \in Seq(Piece)
           /\ Stream(<<Header(m)>> \o Pieces(m)) = Whole(m)
<1>1. /\ Pieces(m) \in Seq(Piece) /\ Stream(Pieces(m)) \in Seq(Byte)
      /\ AnnouncedSize(m) \in Nat /\ m.type \in Word
    BY MessagesArrive DEF Arrives, Word
<1> DEFINE h == Header(m)
<1>2. h \in Piece /\ h.is = "host_message"
    BY <1>1, PieceTypes DEF Header
<1>3. h # NoHeader /\ h.message = m.type /\ h.size = AnnouncedSize(m)
    BY DEF Header, HostMessage, NoHeader
<1> HIDE DEF h
<1>4. Memory(h) \in Seq(Byte) /\ Len(Memory(h)) = SizeOf.host_message
    BY <1>2, MemoryTypes, PieceSizes DEF Kinds
<1>5. Whole(m) \in Seq(Byte)
    BY <1>1, <1>4, ConcatProperties DEF Whole, h
<1>6. <<h>> \in Seq(Piece) /\ <<h>> \o Pieces(m) \in Seq(Piece)
    BY <1>1, <1>2
<1>7. Stream(<<h>> \o Pieces(m)) = Whole(m)
    BY <1>1, <1>2, <1>6, StreamJoin, StreamOne DEF Whole, h
<1>8. QED BY <1>2, <1>3, <1>4, <1>5, <1>6, <1>7 DEF h

(* The bytes of messages joined are their bytes joined.                    *)
LEMMA AllBytesOf ==
    /\ AllBytes(<< >>) = << >>
    /\ \A ms \in Seq(Message) : AllBytes(ms) \in Seq(Byte)
    /\ \A m \in Message : AllBytes(<<m>>) = Whole(m)
    /\ \A ms, ns \in Seq(Message) : AllBytes(ms \o ns) = AllBytes(ms) \o AllBytes(ns)
<1>1. \A m \in Message : WholeOf[m] \in Seq(Byte) /\ WholeOf[m] = Whole(m)
    BY WholeTyped DEF WholeOf
<1>2. AllBytes(<< >>) = << >>
    <2>1. Image(WholeOf, << >>) = << >>
        BY DEF Image
    <2>2. QED BY <2>1, FlattenNone DEF AllBytes
<1>3. ASSUME NEW ms \in Seq(Message) PROVE Image(WholeOf, ms) \in Seq(Seq(Byte))
    BY <1>1, ImageTyped
<1>4. ASSUME NEW ms \in Seq(Message) PROVE AllBytes(ms) \in Seq(Byte)
    BY <1>3, FlattenTyped DEF AllBytes
<1>5. ASSUME NEW m \in Message PROVE AllBytes(<<m>>) = Whole(m)
    <2>1. Image(WholeOf, <<m>>) = <<Whole(m)>>
        BY <1>1 DEF Image
    <2>2. QED BY <1>1, <2>1, FlattenOne DEF AllBytes
<1>6. ASSUME NEW ms \in Seq(Message), NEW ns \in Seq(Message)
      PROVE  AllBytes(ms \o ns) = AllBytes(ms) \o AllBytes(ns)
    <2>1. Image(WholeOf, ms \o ns) = Image(WholeOf, ms) \o Image(WholeOf, ns)
        BY ImageJoin
    <2>2. Image(WholeOf, ms) \in Seq(Seq(Byte)) /\ Image(WholeOf, ns) \in Seq(Seq(Byte))
        BY <1>3
    <2>3. QED BY <2>1, <2>2, FlattenJoin DEF AllBytes
<1>7. QED BY <1>2, <1>4, <1>5, <1>6

(* One message more, at either end.                                        *)
LEMMA AllBytesMore ==
    ASSUME NEW ms \in Seq(Message), NEW m \in Message
    PROVE  Append(ms, m) \in Seq(Message) /\ AllBytes(Append(ms, m)) = AllBytes(ms) \o Whole(m)
<1> DEFINE one == <<m>>
<1>1. one \in Seq(Message) /\ Append(ms, m) = ms \o one
    BY AppendIsConcat
<1>2. AllBytes(one) = Whole(m)
    BY AllBytesOf
<1> HIDE DEF one
<1>3. AllBytes(ms \o one) = AllBytes(ms) \o AllBytes(one)
    BY <1>1, AllBytesOf
<1>4. QED BY <1>1, <1>2, <1>3

(* The bytes of the first message, and of the others.                      *)
LEMMA AllBytesFirst ==
    ASSUME NEW ms \in Seq(Message), ms # << >>
    PROVE  /\ Head(ms) \in Message /\ Tail(ms) \in Seq(Message)
           /\ AllBytes(ms) = Whole(Head(ms)) \o AllBytes(Tail(ms))
           /\ AllBytes(Tail(ms)) \in Seq(Byte)
<1> DEFINE h == Head(ms)
           one == <<h>>
           t == Tail(ms)
<1>1. h \in Message /\ t \in Seq(Message) /\ one \in Seq(Message) /\ ms = one \o t
    BY FirstAndRest
<1> HIDE DEF h
<1>2. AllBytes(one) = Whole(h)
    BY <1>1, AllBytesOf
<1> HIDE DEF one, t
<1>3. AllBytes(one \o t) = AllBytes(one) \o AllBytes(t)
    BY <1>1, AllBytesOf
<1>4. AllBytes(t) \in Seq(Byte)
    BY <1>1, AllBytesOf
<1>5. QED BY <1>1, <1>2, <1>3, <1>4 DEF h, t

(* While no piece had to wait, what has left the writer and what it still  *)
(* holds are, behind what the reader has, just the bytes of the messages   *)
(* not yet read: either from a header on, or, when the reader has taken    *)
(* the header of the first of them, from behind it.                        *)
Coming == buffer \o (wire \o Stream(writing))

BetweenMessages ==
    /\ header = NoHeader
    /\ Len(buffer) <= SizeOf.host_message
    /\ Coming = AllBytes(unread)

InsideMessage ==
    /\ unread # << >>
    /\ header = Header(Head(unread)) /\ AnnouncedSize(Head(unread)) > 0
    /\ Len(buffer) <= AnnouncedSize(Head(unread))
    /\ Coming = Stream(Pieces(Head(unread))) \o AllBytes(Tail(unread))

StreamTypeOK ==
    /\ writing \in Seq(Piece) /\ wire \in Seq(Byte) /\ buffer \in Seq(Byte)
    /\ stale = 0

StreamInvariant ==
    /\ unread \in Seq(Messages)
    /\ overrun \in BOOLEAN
    /\ ~overrun => StreamTypeOK /\ (BetweenMessages \/ InsideMessage)

(* What was sent are messages of the format.                               *)
LEMMA MessagesAreMessages ==
    ASSUME StreamInvariant
    PROVE  unread \in Seq(Message)
<1>1. Messages \subseteq Message
    BY StreamAssumption
<1>2. unread \in Seq(Messages)
    BY DEF StreamInvariant
<1>3. QED BY <1>1, <1>2

(* The invariant holds in the beginning.                                   *)
LEMMA StreamStarts == StreamInit => StreamInvariant
<1> SUFFICES ASSUME StreamInit PROVE StreamInvariant
    OBVIOUS
<1>1. /\ writing = << >> /\ wire = << >> /\ stale = 0
      /\ header = NoHeader /\ buffer = << >> /\ unread = << >> /\ overrun = FALSE
    BY DEF StreamInit
<1>2. /\ unread \in Seq(Messages) /\ overrun \in BOOLEAN
      /\ writing \in Seq(Piece) /\ wire \in Seq(Byte) /\ buffer \in Seq(Byte)
    <2>1. \A S : << >> \in Seq(S)
        OBVIOUS
    <2>2. QED BY <1>1, <2>1
<1>3. Coming = << >>
    <2>1. << >> \o (<< >> \o << >>) = << >>
        OBVIOUS
    <2>2. QED BY <1>1, <2>1, StreamNone DEF Coming
<1>4. AllBytes(unread) = << >>
    BY <1>1, AllBytesOf
<1>5. Len(buffer) <= SizeOf.host_message
    BY <1>1, Sizes
<1>6. QED BY <1>1, <1>2, <1>3, <1>4, <1>5 DEF StreamInvariant, StreamTypeOK, BetweenMessages

-----------------------------------------------------------------------------
(* The writer.                                                             *)
LEMMA StreamAfterSend ==
    ASSUME StreamInvariant, NEW m \in Messages, Send(m)
    PROVE  StreamInvariant'
<1>1. m \in Message /\ unread \in Seq(Message) /\ unread \in Seq(Messages)
    BY MessagesAreMessages, StreamAssumption DEF StreamInvariant
<1>2. /\ writing = << >> /\ writing' = <<Header(m)>> \o Pieces(m) /\ unread' = Append(unread, m)
      /\ wire' = wire /\ stale' = stale /\ overrun' = overrun /\ header' = header /\ buffer' = buffer
    BY DEF Send, Header, reader
<1>3. unread' \in Seq(Messages) /\ overrun' \in BOOLEAN
    BY <1>1, <1>2 DEF StreamInvariant
<1>4. SUFFICES ASSUME ~overrun PROVE StreamTypeOK' /\ (BetweenMessages' \/ InsideMessage')
    BY <1>2, <1>3 DEF StreamInvariant
<1>5. /\ wire \in Seq(Byte) /\ buffer \in Seq(Byte) /\ stale = 0
      /\ BetweenMessages \/ InsideMessage
    BY <1>4 DEF StreamInvariant, StreamTypeOK
<1>6. writing' \in Seq(Piece) /\ Stream(writing') = Whole(m) /\ Whole(m) \in Seq(Byte)
    BY <1>1, <1>2, WholeTyped
<1>7. StreamTypeOK'
    BY <1>2, <1>5, <1>6 DEF StreamTypeOK
<1>8. Coming' = Coming \o Whole(m)
    <2> DEFINE w == Whole(m)
    <2>1. Coming = buffer \o wire
        <3>1. wire \o << >> = wire
            BY <1>5, JoinNone
        <3>2. QED BY <1>2, <3>1, StreamNone DEF Coming
    <2>2. Coming' = buffer \o (wire \o w)
        BY <1>2, <1>6 DEF Coming
    <2> HIDE DEF w
    <2>3. (buffer \o wire) \o w = buffer \o (wire \o w)
        <3>1. buffer \in Seq(Byte) /\ wire \in Seq(Byte) /\ w \in Seq(Byte)
            BY <1>5, <1>6 DEF w
        <3>2. QED BY <3>1, JoinRegroups
    <2>4. QED BY <2>1, <2>2, <2>3 DEF w
<1>9. CASE BetweenMessages
    <2>1. AllBytes(unread') = AllBytes(unread) \o Whole(m)
        BY <1>1, <1>2, AllBytesMore
    <2>2. BetweenMessages'
        BY <1>2, <1>8, <1>9, <2>1 DEF BetweenMessages
    <2>3. QED BY <1>7, <2>2
<1>10. CASE InsideMessage
    <2> DEFINE h == Head(unread)
               t == Tail(unread)
               s == Stream(Pieces(h))
               a == AllBytes(t)
               w == Whole(m)
    <2>1. unread # << >> /\ Coming = s \o a
        BY <1>10 DEF InsideMessage
    <2>2. h \in Message /\ t \in Seq(Message) /\ a \in Seq(Byte)
        BY <1>1, <2>1, AllBytesFirst
    <2>3. s \in Seq(Byte)
        BY <2>2, MessagesArrive DEF Arrives
    <2>4. Head(unread') = h /\ Tail(unread') = Append(t, m) /\ unread' # << >>
        BY <1>1, <1>2, <2>1
    <2>5. AllBytes(Tail(unread')) = a \o w
        BY <1>1, <2>2, <2>4, AllBytesMore
    <2>6. Coming' = s \o (a \o w)
        <3>1. Coming' = (s \o a) \o w
            BY <1>8, <2>1
        <3> HIDE DEF s, a, w
        <3>2. w \in Seq(Byte)
            BY <1>6 DEF w
        <3>3. QED BY <2>2, <2>3, <3>1, <3>2, JoinRegroups
    <2>7. InsideMessage'
        <3>1. /\ header' = Header(Head(unread')) /\ AnnouncedSize(Head(unread')) > 0
              /\ Len(buffer') <= AnnouncedSize(Head(unread'))
            BY <1>2, <1>10, <2>4 DEF InsideMessage
        <3>2. Coming' = Stream(Pieces(Head(unread'))) \o AllBytes(Tail(unread'))
            BY <2>4, <2>5, <2>6
        <3>3. QED BY <2>4, <3>1, <3>2 DEF InsideMessage
    <2>8. QED BY <1>7, <2>7
<1>11. QED BY <1>5, <1>9, <1>10

(* A step that only moves bytes on.                                        *)
LEMMA StreamMoves ==
    ASSUME StreamInvariant, UNCHANGED <<unread, header>>, overrun' \in BOOLEAN,
           ~overrun' => /\ ~overrun
                        /\ StreamTypeOK' /\ Coming' = Coming
                        /\ Len(buffer') <= Needed
    PROVE  StreamInvariant'
<1>1. unread' = unread /\ header' = header /\ unread' \in Seq(Messages)
    BY DEF StreamInvariant
<1>2. SUFFICES ASSUME ~overrun' PROVE StreamTypeOK' /\ (BetweenMessages' \/ InsideMessage')
    BY <1>1 DEF StreamInvariant
<1>3. BetweenMessages \/ InsideMessage
    BY <1>2 DEF StreamInvariant
<1>4. CASE BetweenMessages
    <2>1. Len(buffer') <= SizeOf.host_message
        BY <1>2, <1>4 DEF BetweenMessages, Needed
    <2>2. BetweenMessages'
        BY <1>1, <1>2, <1>4, <2>1 DEF BetweenMessages
    <2>3. QED BY <1>2, <2>2
<1>5. CASE InsideMessage
    <2>1. Head(unread) \in Message
        BY <1>5, MessagesAreMessages, AllBytesFirst DEF InsideMessage
    <2>2. Len(buffer') <= AnnouncedSize(Head(unread))
        BY <1>2, <1>5, <2>1, WholeTyped DEF InsideMessage, Needed
    <2>3. InsideMessage'
        BY <1>1, <1>2, <1>5, <2>2 DEF InsideMessage
    <2>4. QED BY <1>2, <2>3
<1>6. QED BY <1>3, <1>4, <1>5

(* A piece that the socket takes at once moves from the writer to the      *)
(* wire; one that it does not take ends what is promised.                  *)
LEMMA StreamAfterWritePiece ==
    ASSUME StreamInvariant, WritePiece
    PROVE  StreamInvariant'
<1> DEFINE bytes == Memory(Head(writing))
           taken == IF stale > 0 THEN 0 ELSE IF Len(bytes) <= Room THEN Len(bytes) ELSE Room
<1>1. /\ writing # << >> /\ writing' = Tail(writing)
      /\ wire' = wire \o SubSeq(bytes, 1, taken) /\ stale' = stale + (Len(bytes) - taken)
      /\ overrun' = (overrun \/ taken < Len(bytes))
      /\ header' = header /\ buffer' = buffer /\ unread' = unread
    BY DEF WritePiece, reader
<1>2. overrun' \in BOOLEAN
    BY <1>1
<1>3. ASSUME ~overrun'
      PROVE  ~overrun /\ StreamTypeOK' /\ Coming' = Coming /\ Len(buffer') <= Needed
    <2>1. ~overrun /\ ~(taken < Len(bytes))
        BY <1>1, <1>3
    <2>2. StreamTypeOK /\ (BetweenMessages \/ InsideMessage)
        BY <2>1 DEF StreamInvariant
    <2> DEFINE p == Head(writing)
               one == <<p>>
               rest == Tail(writing)
    <2>3. p \in Piece /\ rest \in Seq(Piece) /\ one \in Seq(Piece) /\ writing = one \o rest
        BY <1>1, <2>2, FirstAndRest DEF StreamTypeOK
    <2>4. bytes \in Seq(Byte) /\ Stream(one) = bytes
        BY <2>3, StreamOne, MemoryTypes
    <2> HIDE DEF p, one, rest
    <2>5. Stream(writing) = bytes \o Stream(rest) /\ Stream(rest) \in Seq(Byte)
        BY <2>3, <2>4, StreamJoin, StreamTyped
    <2> HIDE DEF bytes
    <2>6. taken = Len(bytes)
        <3>1. stale = 0
            BY <2>2 DEF StreamTypeOK
        <3>2. Len(wire) \in Nat /\ Len(bytes) \in Nat /\ Capacity \in Nat
            BY <2>2, <2>4, StreamAssumption, LenProperties DEF StreamTypeOK
        <3>3. Room \in Int
            BY <3>2 DEF Room
        <3>4. QED BY <2>1, <3>1, <3>2, <3>3
    <2> HIDE DEF taken
    <2>7. SubSeq(bytes, 1, taken) = bytes
        BY <2>4, <2>6, SubSeqFull
    <2>8. wire' = wire \o bytes /\ stale' = 0 /\ writing' = rest
        <3>1. Len(bytes) \in Nat /\ stale = 0
            BY <2>2, <2>4, LenProperties DEF StreamTypeOK
        <3>2. stale' = 0
            BY <1>1, <2>6, <3>1
        <3>3. wire' = wire \o bytes
            BY <1>1, <2>7
        <3>4. writing' = rest
            BY <1>1 DEF rest
        <3>5. QED BY <3>2, <3>3, <3>4
    <2>9. wire \in Seq(Byte) /\ buffer \in Seq(Byte)
        BY <2>2 DEF StreamTypeOK
    <2>10. StreamTypeOK'
        <3>1. wire \o bytes \in Seq(Byte)
            BY <2>4, <2>9, ConcatProperties
        <3>2. QED BY <1>1, <2>3, <2>8, <2>9, <3>1 DEF StreamTypeOK
    <2>11. Coming' = Coming
        <3> DEFINE s == Stream(rest)
        <3>1. Coming' = buffer \o ((wire \o bytes) \o s)
            BY <1>1, <2>8 DEF Coming
        <3>2. Coming = buffer \o (wire \o (bytes \o s))
            BY <2>5 DEF Coming
        <3>3. s \in Seq(Byte)
            BY <2>5
        <3> HIDE DEF s
        <3>4. (wire \o bytes) \o s = wire \o (bytes \o s)
            BY <2>4, <2>9, <3>3, JoinRegroups
        <3>5. QED BY <3>1, <3>2, <3>4
    <2>12. Len(buffer') <= Needed
        <3>1. CASE BetweenMessages
            BY <1>1, <3>1 DEF BetweenMessages, Needed
        <3>2. CASE InsideMessage
            <4>1. Head(unread) \in Message
                BY <3>2, MessagesAreMessages, AllBytesFirst DEF InsideMessage
            <4>2. QED BY <1>1, <3>2, <4>1, WholeTyped DEF InsideMessage, Needed
        <3>3. QED BY <2>2, <3>1, <3>2
    <2>13. QED BY <2>1, <2>10, <2>11, <2>12
<1>4. UNCHANGED <<unread, header>>
    BY <1>1
<1>5. QED BY <1>2, <1>3, <1>4, StreamMoves

(* What is written late was overrun before.                                *)
LEMMA StreamAfterWriteLate ==
    ASSUME StreamInvariant, WriteLate
    PROVE  StreamInvariant'
<1>1. stale > 0 /\ unread' = unread /\ overrun' = overrun
    BY DEF WriteLate
<1>2. overrun
    BY <1>1 DEF StreamInvariant, StreamTypeOK
<1>3. QED BY <1>1, <1>2 DEF StreamInvariant

(* The reader.                                                             *)
LEMMA StreamAfterFetch ==
    ASSUME StreamInvariant, Fetch
    PROVE  StreamInvariant'
<1> DEFINE missing == Needed - Len(buffer)
           n == IF missing < Len(wire) THEN missing ELSE Len(wire)
           first == SubSeq(wire, 1, n)
           rest == SubSeq(wire, n + 1, Len(wire))
<1>1. /\ wire # << >> /\ Len(buffer) < Needed
      /\ buffer' = buffer \o first /\ wire' = rest
      /\ header' = header /\ unread' = unread
      /\ writing' = writing /\ stale' = stale /\ overrun' = overrun
    BY DEF Fetch, writer
<1>2. overrun' \in BOOLEAN
    BY <1>1 DEF StreamInvariant
<1>3. ASSUME ~overrun'
      PROVE  ~overrun /\ StreamTypeOK' /\ Coming' = Coming /\ Len(buffer') <= Needed
    <2>1. ~overrun /\ StreamTypeOK /\ (BetweenMessages \/ InsideMessage)
        BY <1>1, <1>3 DEF StreamInvariant
    <2>2. wire \in Seq(Byte) /\ buffer \in Seq(Byte) /\ writing \in Seq(Piece)
        BY <2>1 DEF StreamTypeOK
    <2>3. Len(wire) \in Nat \ {0} /\ Len(buffer) \in Nat
        BY <1>1, <2>2, EmptySeq, LenProperties
    <2>4. Needed \in Nat
        <3>1. CASE BetweenMessages
            BY <3>1, Sizes DEF BetweenMessages, Needed
        <3>2. CASE InsideMessage
            <4>1. Head(unread) \in Message
                BY <3>2, MessagesAreMessages, AllBytesFirst DEF InsideMessage
            <4>2. Needed = AnnouncedSize(Head(unread))
                BY <3>2, <4>1, WholeTyped DEF InsideMessage, Needed
            <4>3. QED BY <4>1, <4>2, MessagesArrive DEF Arrives
        <3>3. QED BY <2>1, <3>1, <3>2
    <2>5. n \in 1..Len(wire) /\ Len(buffer) + n <= Needed
        BY <1>1, <2>3, <2>4
    <2> HIDE DEF n
    <2>6. first \in Seq(Byte) /\ Len(first) = n /\ rest \in Seq(Byte) /\ wire = first \o rest
        BY <2>2, <2>5, Beginnings
    <2> HIDE DEF first, rest
    <2>7. buffer \o first \in Seq(Byte) /\ Len(buffer \o first) = Len(buffer) + Len(first)
        BY <2>2, <2>6, ConcatProperties
    <2>8. StreamTypeOK'
        BY <1>1, <2>1, <2>6, <2>7 DEF StreamTypeOK
    <2>9. Coming' = Coming
        <3> DEFINE s == Stream(writing)
        <3>1. s \in Seq(Byte)
            BY <2>2, StreamTyped
        <3>2. Coming = buffer \o ((first \o rest) \o s) /\ Coming' = (buffer \o first) \o (rest \o s)
            BY <1>1, <2>6 DEF Coming
        <3> HIDE DEF s
        <3>3. (first \o rest) \o s = first \o (rest \o s) /\ rest \o s \in Seq(Byte)
            BY <2>6, <3>1, JoinRegroups, ConcatProperties
        <3>4. (buffer \o first) \o (rest \o s) = buffer \o (first \o (rest \o s))
            <4> DEFINE d == rest \o s
            <4>1. d \in Seq(Byte) /\ buffer \in Seq(Byte) /\ first \in Seq(Byte)
                BY <2>2, <2>6, <3>3
            <4> HIDE DEF d
            <4>2. (buffer \o first) \o d = buffer \o (first \o d)
                BY <4>1, JoinRegroups
            <4>3. QED BY <4>2 DEF d
        <3>5. QED BY <3>2, <3>3, <3>4
    <2>10. QED BY <1>1, <2>1, <2>5, <2>6, <2>7, <2>8, <2>9
<1>4. UNCHANGED <<unread, header>>
    BY <1>1
<1>5. QED BY <1>2, <1>3, <1>4, StreamMoves

(* A message that is complete is the first of those that were sent.        *)
LEMMA HeaderComplete ==
    ASSUME StreamInvariant, ~overrun, header = NoHeader, Len(buffer) = SizeOf.host_message
    PROVE  /\ unread # << >> /\ Head(unread) \in Message
           /\ StructAt(buffer, 0, "host_message") = Header(Head(unread))
           /\ wire \o Stream(writing) = Stream(Pieces(Head(unread))) \o AllBytes(Tail(unread))
<1> DEFINE h == Head(unread)
           t == Tail(unread)
           a == Memory(Header(h))
           b == Stream(Pieces(h))
           c == AllBytes(t)
           rest == wire \o Stream(writing)
<1>1. StreamTypeOK /\ BetweenMessages
    <2>1. ASSUME InsideMessage PROVE FALSE
        <3>1. Head(unread) \in Message
            BY <2>1, MessagesAreMessages, AllBytesFirst DEF InsideMessage
        <3>2. QED BY <2>1, <3>1, WholeTyped DEF InsideMessage
    <2>2. QED BY <2>1 DEF StreamInvariant
<1>2. buffer \in Seq(Byte) /\ rest \in Seq(Byte) /\ buffer \o rest = AllBytes(unread)
    <2>1. wire \in Seq(Byte) /\ Stream(writing) \in Seq(Byte) /\ buffer \in Seq(Byte)
        BY <1>1, StreamTyped DEF StreamTypeOK
    <2>2. QED BY <1>1, <2>1, ConcatProperties DEF BetweenMessages, Coming
<1> HIDE DEF rest
<1>3. unread # << >>
    <2>1. ASSUME unread = << >> PROVE FALSE
        <3>1. buffer \o rest = << >>
            BY <1>2, <2>1, AllBytesOf
        <3>2. Len(buffer \o rest) = Len(buffer) + Len(rest) /\ Len(rest) \in Nat
            BY <1>2, ConcatProperties, LenProperties
        <3>3. Len(buffer) = 8
            BY Sizes
        <3>4. QED BY <3>1, <3>2, <3>3
    <2>2. QED BY <2>1
<1>4. h \in Message /\ c \in Seq(Byte) /\ AllBytes(unread) = Whole(h) \o c
    BY <1>3, MessagesAreMessages, AllBytesFirst
<1>5. /\ a \in Seq(Byte) /\ Len(a) = SizeOf.host_message /\ Whole(h) = a \o b
      /\ Header(h) \in Piece /\ Header(h).is = "host_message" /\ b \in Seq(Byte)
    BY <1>4, WholeTyped, MessagesArrive DEF Whole, Arrives
<1>6. buffer = a /\ rest = b \o c
    <2> HIDE DEF a, b, c, h
    <2>1. (a \o b) \o c = a \o (b \o c) /\ b \o c \in Seq(Byte)
        <3>1. a \in Seq(Byte) /\ b \in Seq(Byte) /\ c \in Seq(Byte)
            BY <1>4, <1>5
        <3>2. (a \o b) \o c = a \o (b \o c)
            BY <3>1, JoinRegroups
        <3>3. b \o c \in Seq(Byte)
            BY <3>1, ConcatProperties
        <3>4. QED BY <3>2, <3>3
    <2>2. buffer \o rest = a \o (b \o c)
        BY <1>2, <1>4, <1>5, <2>1
    <2> DEFINE d == b \o c
    <2>3. d \in Seq(Byte) /\ buffer \o rest = a \o d /\ Len(buffer) = Len(a)
        BY <1>5, <2>1, <2>2
    <2> HIDE DEF d
    <2>4. buffer = a /\ rest = d
        BY <1>2, <1>5, <2>3, SameCut
    <2>5. QED BY <2>4 DEF d
<1>7. StructAt(buffer, 0, "host_message") = Header(h)
    <2> DEFINE p == Header(h)
    <2>1. p \in Piece /\ p.is = "host_message" /\ buffer = Memory(p)
        BY <1>5, <1>6
    <2> HIDE DEF p
    <2>2. Holds(buffer, 0, Memory(p))
        BY <1>2, <2>1, HoldsItself
    <2>3. StructAt(buffer, 0, p.is) = p
        BY <1>2, <2>1, <2>2, StructFound DEF Kinds
    <2>4. QED BY <2>1, <2>3 DEF p
<1>8. QED BY <1>3, <1>4, <1>6, <1>7 DEF rest

(* The same when the data behind a header are complete.                    *)
LEMMA DataComplete ==
    ASSUME StreamInvariant, ~overrun, header # NoHeader, Len(buffer) = header.size
    PROVE  /\ unread # << >> /\ Head(unread) \in Message
           /\ Decode(header.message, buffer) = Head(unread)
           /\ wire \o Stream(writing) = AllBytes(Tail(unread))
<1> DEFINE h == Head(unread)
           b == Stream(Pieces(h))
           c == AllBytes(Tail(unread))
           rest == wire \o Stream(writing)
<1>1. StreamTypeOK /\ InsideMessage
    BY DEF StreamInvariant, BetweenMessages
<1>2. buffer \in Seq(Byte) /\ rest \in Seq(Byte) /\ buffer \o rest = b \o c
    <2>1. wire \in Seq(Byte) /\ Stream(writing) \in Seq(Byte) /\ buffer \in Seq(Byte)
        BY <1>1, StreamTyped DEF StreamTypeOK
    <2>2. QED BY <1>1, <2>1, ConcatProperties DEF InsideMessage, Coming
<1>3. unread # << >> /\ h \in Message /\ c \in Seq(Byte)
    BY <1>1, MessagesAreMessages, AllBytesFirst DEF InsideMessage
<1>4. header.message = h.type /\ header.size = AnnouncedSize(h)
    BY <1>1, <1>3, WholeTyped DEF InsideMessage
<1>5. b \in Seq(Byte) /\ AnnouncedSize(h) = Len(b) /\ Decode(h.type, b) = h
    BY <1>3, MessagesArrive DEF Arrives
<1> HIDE DEF rest, b, c, h
<1>6. buffer = b /\ rest = c
    <2>1. Len(buffer) = Len(b)
        BY <1>4, <1>5
    <2>2. QED BY <1>2, <1>3, <1>5, <2>1, SameCut
<1>7. QED BY <1>3, <1>4, <1>5, <1>6 DEF rest, b, c, h

(* Handing over the first message leaves the reader between messages.      *)
LEMMA StreamAfterHandOver ==
    ASSUME StreamInvariant, NEW m, HandOver(m),
           ~overrun => unread # << >> /\ wire \o Stream(writing) = AllBytes(Tail(unread))
    PROVE  StreamInvariant'
<1>1. /\ header' = NoHeader /\ buffer' = << >>
      /\ unread' = IF unread = << >> THEN unread ELSE Tail(unread)
      /\ wire' = wire /\ writing' = writing /\ stale' = stale /\ overrun' = overrun
    BY DEF HandOver, writer
<1>2. unread' \in Seq(Messages) /\ overrun' \in BOOLEAN
    <2>1. unread \in Seq(Messages) /\ overrun \in BOOLEAN
        BY DEF StreamInvariant
    <2>2. unread # << >> => Tail(unread) \in Seq(Messages)
        BY <2>1, FirstAndRest
    <2>3. QED BY <1>1, <2>1, <2>2
<1>3. SUFFICES ASSUME ~overrun PROVE StreamTypeOK' /\ BetweenMessages'
    BY <1>1, <1>2 DEF StreamInvariant
<1>4. StreamTypeOK
    BY <1>3 DEF StreamInvariant
<1>5. StreamTypeOK'
    <2>1. << >> \in Seq(Byte)
        OBVIOUS
    <2>2. QED BY <1>1, <1>4, <2>1 DEF StreamTypeOK
<1>6. Len(buffer') <= SizeOf.host_message
    BY <1>1, Sizes
<1>7. Coming' = AllBytes(unread')
    <2> DEFINE rest == wire \o Stream(writing)
    <2>1. unread # << >> /\ rest = AllBytes(Tail(unread))
        BY <1>3
    <2>2. rest \in Seq(Byte)
        <3>1. wire \in Seq(Byte) /\ Stream(writing) \in Seq(Byte)
            BY <1>4, StreamTyped DEF StreamTypeOK
        <3>2. QED BY <3>1, ConcatProperties
    <2>3. Coming' = << >> \o rest /\ unread' = Tail(unread)
        BY <1>1, <2>1 DEF Coming
    <2> HIDE DEF rest
    <2>4. << >> \o rest = rest
        BY <2>2, JoinNone
    <2>5. QED BY <2>1, <2>3, <2>4
<1>8. QED BY <1>1, <1>5, <1>6, <1>7 DEF BetweenMessages

(* What the reader hands over is the first message that was sent.          *)
LEMMA HeaderHandsOver ==
    ASSUME StreamInvariant, ~overrun, header = NoHeader, Len(buffer) = SizeOf.host_message,
           StructAt(buffer, 0, "host_message").size = 0
    PROVE  /\ unread # << >> /\ wire \o Stream(writing) = AllBytes(Tail(unread))
           /\ Decode(StructAt(buffer, 0, "host_message").message, << >>) = Head(unread)
<1> DEFINE h == Head(unread)
           b == Stream(Pieces(h))
           c == AllBytes(Tail(unread))
<1>1. /\ unread # << >> /\ h \in Message /\ StructAt(buffer, 0, "host_message") = Header(h)
      /\ wire \o Stream(writing) = b \o c
    BY HeaderComplete
<1>2. c \in Seq(Byte)
    BY <1>1, MessagesAreMessages, AllBytesFirst
<1>3. b \in Seq(Byte) /\ AnnouncedSize(h) = Len(b) /\ Decode(h.type, b) = h
    BY <1>1, MessagesArrive DEF Arrives
<1>4. Header(h).size = AnnouncedSize(h) /\ Header(h).message = h.type
    BY <1>1, WholeTyped
<1> HIDE DEF b, c, h
<1>5. b = << >>
    <2>1. Len(b) = 0
        BY <1>1, <1>3, <1>4
    <2>2. QED BY <1>3, <2>1, EmptySeq
<1>6. b \o c = c
    BY <1>2, <1>5, JoinNone
<1>7. QED BY <1>1, <1>3, <1>4, <1>5, <1>6 DEF c, h

(* The header of a command hands the command over; another header is kept  *)
(* until its data are complete.                                            *)
LEMMA StreamAfterTakeHeader ==
    ASSUME StreamInvariant, TakeHeader
    PROVE  StreamInvariant'
<1> DEFINE shm == StructAt(buffer, 0, "host_message")
<1>1. header = NoHeader /\ Len(buffer) = SizeOf.host_message
    BY DEF TakeHeader
<1>2. CASE shm.size = 0 /\ HandOver(Decode(shm.message, << >>))
    <2>1. ~overrun => unread # << >> /\ wire \o Stream(writing) = AllBytes(Tail(unread))
        BY <1>1, <1>2, HeaderHandsOver
    <2>2. QED BY <1>2, <2>1, StreamAfterHandOver
<1>3. CASE /\ shm.size > 0
           /\ header' = shm /\ buffer' = << >>
           /\ UNCHANGED <<wire, got, unread>>
           /\ UNCHANGED writer
    <2>1. /\ shm.size > 0 /\ header' = shm /\ buffer' = << >> /\ wire' = wire /\ unread' = unread
          /\ writing' = writing /\ stale' = stale /\ overrun' = overrun
        BY <1>3 DEF writer
    <2>2. unread' \in Seq(Messages) /\ overrun' \in BOOLEAN
        BY <2>1 DEF StreamInvariant
    <2>3. SUFFICES ASSUME ~overrun PROVE StreamTypeOK' /\ InsideMessage'
        BY <2>1, <2>2 DEF StreamInvariant
    <2>4. StreamTypeOK
        BY <2>3 DEF StreamInvariant
    <2>5. StreamTypeOK'
        <3>1. << >> \in Seq(Byte)
            OBVIOUS
        <3>2. QED BY <2>1, <2>4, <3>1 DEF StreamTypeOK
    <2> DEFINE h == Head(unread)
               rest == wire \o Stream(writing)
    <2>6. unread # << >> /\ h \in Message /\ shm = Header(h) /\ rest = Stream(Pieces(h)) \o AllBytes(Tail(unread))
        BY <1>1, <2>3, HeaderComplete
    <2>7. rest \in Seq(Byte)
        <3>1. wire \in Seq(Byte) /\ Stream(writing) \in Seq(Byte)
            BY <2>4, StreamTyped DEF StreamTypeOK
        <3>2. QED BY <3>1, ConcatProperties
    <2>8. Coming' = << >> \o rest
        BY <2>1 DEF Coming
    <2>9. << >> \o rest = rest
        <3> HIDE DEF rest
        <3>1. QED BY <2>7, JoinNone
    <2>10. AnnouncedSize(h) > 0 /\ AnnouncedSize(h) \in Nat
        BY <2>1, <2>6, WholeTyped, MessagesArrive DEF Arrives
    <2> HIDE DEF shm, rest, h
    <2>11. Len(buffer') <= AnnouncedSize(h)
        BY <2>1, <2>10
    <2>12. InsideMessage'
        BY <2>1, <2>6, <2>8, <2>9, <2>10, <2>11 DEF InsideMessage, h
    <2>13. QED BY <2>5, <2>12
<1>4. QED BY <1>2, <1>3 DEF TakeHeader

(* The data hand over the message whose header was kept.                   *)
LEMMA StreamAfterTakeData ==
    ASSUME StreamInvariant, TakeData
    PROVE  StreamInvariant'
<1>1. header # NoHeader /\ Len(buffer) = header.size /\ HandOver(Decode(header.message, buffer))
    BY DEF TakeData
<1>2. ~overrun => unread # << >> /\ wire \o Stream(writing) = AllBytes(Tail(unread))
    BY <1>1, DataComplete
<1>3. QED BY <1>1, <1>2, StreamAfterHandOver

(* Every step keeps the invariant.                                         *)
LEMMA StreamSteps == StreamInvariant /\ [StreamNext]_streamVars => StreamInvariant'
<1> SUFFICES ASSUME StreamInvariant, [StreamNext]_streamVars PROVE StreamInvariant'
    OBVIOUS
<1>1. ASSUME NEW m \in Messages, Send(m) PROVE StreamInvariant'
    BY <1>1, StreamAfterSend
<1>2. CASE WritePiece
    BY <1>2, StreamAfterWritePiece
<1>3. CASE WriteLate
    BY <1>3, StreamAfterWriteLate
<1>4. CASE Fetch
    BY <1>4, StreamAfterFetch
<1>5. CASE TakeHeader
    BY <1>5, StreamAfterTakeHeader
<1>6. CASE TakeData
    BY <1>6, StreamAfterTakeData
<1>7. CASE UNCHANGED streamVars
    BY <1>7 DEF streamVars, StreamInvariant, StreamTypeOK, BetweenMessages, InsideMessage, Coming
<1>8. QED BY <1>1, <1>2, <1>3, <1>4, <1>5, <1>6, <1>7 DEF StreamNext

(* The stream of bytes is, at every moment and however it is cut up, what  *)
(* remains of the messages that were sent and are not read.                *)
THEOREM StreamIsInOrder == StreamSpec => []StreamInvariant
<1>1. QED BY StreamStarts, StreamSteps, PTL DEF StreamSpec

(* The reader never waits for bytes that nobody is going to write.         *)
THEOREM NobodyStarves == StreamSpec => []NeverStarves
<1>1. StreamInvariant => NeverStarves
    <2>1. SUFFICES ASSUME StreamInvariant, unread # << >>, ~overrun, writing = << >>, wire = << >>
                   PROVE  Len(buffer) = Needed
        BY DEF NeverStarves
    <2> DEFINE h == Head(unread)
               b == Stream(Pieces(h))
               c == AllBytes(Tail(unread))
               a == Memory(Header(h))
    <2>2. /\ buffer \in Seq(Byte) /\ Len(buffer) \in Nat
          /\ BetweenMessages \/ InsideMessage
        BY <2>1, LenProperties DEF StreamInvariant, StreamTypeOK
    <2>3. Coming = buffer
        <3>1. << >> \o << >> = << >>
            OBVIOUS
        <3>2. buffer \o << >> = buffer
            BY <2>2, JoinNone
        <3>3. QED BY <2>1, <3>1, <3>2, StreamNone DEF Coming
    <2>4. h \in Message /\ c \in Seq(Byte) /\ AllBytes(unread) = Whole(h) \o c
        BY <2>1, MessagesAreMessages, AllBytesFirst
    <2>5. /\ b \in Seq(Byte) /\ AnnouncedSize(h) = Len(b) /\ Len(b) \in Nat /\ Len(c) \in Nat
          /\ a \in Seq(Byte) /\ Len(a) = SizeOf.host_message /\ Whole(h) = a \o b
          /\ Header(h).size = AnnouncedSize(h) /\ Header(h) # NoHeader /\ SizeOf.host_message \in Nat
        <3>1. b \in Seq(Byte) /\ AnnouncedSize(h) = Len(b)
            BY <2>4, MessagesArrive DEF Arrives
        <3>2. /\ a \in Seq(Byte) /\ Len(a) = SizeOf.host_message
              /\ Header(h).size = AnnouncedSize(h) /\ Header(h) # NoHeader
            BY <2>4, WholeTyped
        <3>3. Whole(h) = a \o b
            BY DEF Whole
        <3>4. SizeOf.host_message \in Nat
            BY Sizes
        <3> HIDE DEF a, b, c
        <3>5. Len(b) \in Nat /\ Len(c) \in Nat
            BY <2>4, <3>1, LenProperties
        <3>6. QED BY <3>1, <3>2, <3>3, <3>4, <3>5
    <2>6. CASE BetweenMessages
        <3>1. header = NoHeader /\ Len(buffer) <= SizeOf.host_message /\ buffer = (a \o b) \o c
            BY <2>3, <2>4, <2>5, <2>6 DEF BetweenMessages
        <3> HIDE DEF a, b, c
        <3>2. Len((a \o b) \o c) = (Len(a) + Len(b)) + Len(c)
            <4> DEFINE ab == a \o b
            <4>1. ab \in Seq(Byte) /\ Len(ab) = Len(a) + Len(b)
                BY <2>5, ConcatProperties
            <4> HIDE DEF ab
            <4>2. Len(ab \o c) = Len(ab) + Len(c)
                BY <2>4, <4>1, ConcatProperties
            <4>3. QED BY <4>1, <4>2 DEF ab
        <3>3. Len(buffer) = SizeOf.host_message
            BY <2>2, <2>5, <3>1, <3>2
        <3>4. QED BY <3>1, <3>3 DEF Needed
    <2>7. CASE InsideMessage
        <3>1. header = Header(h) /\ Len(buffer) <= AnnouncedSize(h) /\ buffer = b \o c
            BY <2>3, <2>7 DEF InsideMessage
        <3>2. Needed = AnnouncedSize(h)
            BY <2>5, <3>1 DEF Needed
        <3> HIDE DEF b, c
        <3>3. Len(b \o c) = Len(b) + Len(c)
            BY <2>4, <2>5, ConcatProperties
        <3>4. QED BY <2>2, <2>5, <3>1, <3>2, <3>3
    <2>8. QED BY <2>2, <2>6, <2>7
<1>2. QED BY <1>1, StreamIsInOrder, PTL

(* Messages arrive as they were sent, each once and in order, until a      *)
(* piece has to wait.                                                      *)
THEOREM StreamIsAChannel == StreamSpec => ImplementsChannel
<1>1. StreamInit => Channel!ChannelInit
    BY DEF StreamInit, Channel!ChannelInit
<1>2. StreamInvariant /\ [StreamNext]_streamVars => [Channel!ChannelNext]_(Channel!channelVars)
    <2> SUFFICES ASSUME StreamInvariant, [StreamNext]_streamVars
                 PROVE  Channel!ChannelNext \/ UNCHANGED <<unread, got, overrun>>
        BY DEF Channel!channelVars
    <2>1. unread \in Seq(Messages) /\ overrun \in BOOLEAN
        BY DEF StreamInvariant
    <2>2. ASSUME NEW m, HandOver(m), ~overrun => unread # << >> /\ m = Head(unread)
          PROVE  Channel!ChannelNext
        <3>1. got' = m /\ overrun' = overrun /\ unread' = IF unread = << >> THEN unread ELSE Tail(unread)
            BY <2>2 DEF HandOver, writer
        <3>2. CASE overrun
            BY <3>1, <3>2 DEF Channel!ChannelNext, Channel!LoseTrack
        <3>3. CASE ~overrun
            BY <2>2, <3>1, <3>3 DEF Channel!ChannelNext, Channel!Deliver
        <3>4. QED BY <3>2, <3>3
    <2>3. ASSUME NEW m \in Messages, Send(m) PROVE Channel!ChannelNext
        <3>1. unread' = Append(unread, m) /\ got' = got /\ overrun' = overrun
            BY <2>3 DEF Send, reader
        <3>2. Len(unread') = Len(unread) + 1
            BY <2>1, <3>1, AppendProperties
        <3>3. QED BY <3>1, <3>2 DEF Channel!ChannelNext, Channel!Send
    <2>4. CASE WritePiece
        <3>1. unread' = unread /\ got' = got /\ overrun' \in BOOLEAN /\ (overrun => overrun')
            BY <2>4 DEF WritePiece, reader
        <3>2. CASE overrun'
            BY <3>2 DEF Channel!ChannelNext, Channel!LoseTrack
        <3>3. CASE ~overrun'
            BY <2>1, <3>1, <3>3
        <3>4. QED BY <3>2, <3>3
    <2>5. CASE WriteLate
        BY <2>5 DEF WriteLate, reader
    <2>6. CASE Fetch
        BY <2>6 DEF Fetch, writer
    <2>7. CASE TakeHeader
        <3> DEFINE shm == StructAt(buffer, 0, "host_message")
                   decoded == Decode(shm.message, << >>)
        <3>1. header = NoHeader /\ Len(buffer) = SizeOf.host_message
            BY <2>7 DEF TakeHeader
        <3>2. CASE shm.size = 0 /\ HandOver(decoded)
            <4>1. ~overrun => unread # << >> /\ decoded = Head(unread)
                BY <3>1, <3>2, HeaderHandsOver
            <4> HIDE DEF decoded
            <4>2. QED BY <2>2, <3>2, <4>1
        <3>3. CASE UNCHANGED <<wire, got, unread>> /\ UNCHANGED writer
            BY <3>3 DEF writer
        <3>4. QED BY <2>7, <3>2, <3>3 DEF TakeHeader
    <2>8. CASE TakeData
        <3> DEFINE decoded == Decode(header.message, buffer)
        <3>1. header # NoHeader /\ Len(buffer) = header.size /\ HandOver(decoded)
            BY <2>8 DEF TakeData
        <3>2. ~overrun => unread # << >> /\ decoded = Head(unread)
            BY <3>1, DataComplete
        <3> HIDE DEF decoded
        <3>3. QED BY <2>2, <3>1, <3>2
    <2>9. CASE UNCHANGED streamVars
        BY <2>9 DEF streamVars
    <2>10. QED BY <2>3, <2>4, <2>5, <2>6, <2>7, <2>8, <2>9 DEF StreamNext
<1>3. QED BY <1>1, <1>2, StreamIsInOrder, PTL DEF StreamSpec, ImplementsChannel, Channel!ChannelSpec
=============================================================================
