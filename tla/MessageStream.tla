---------------------------- MODULE MessageStream ----------------------------
(***************************************************************************)
(* One direction of the connection between server and controller: how a    *)
(* message is written to the socket and read from it.  The writer is a     *)
(* handler that starts one async_write per piece (host_server.cpp 194-249, *)
(* 264-279, 287-447; client.cpp 273-327); the reader is the chain of       *)
(* handlers of start_read (client.cpp 54-247; host_server.cpp 100-177).    *)
(*                                                                         *)
(* The pieces lie on the stack of the handler, or in vectors that end with *)
(* it.  A write that the socket takes at once is safe.  When the socket    *)
(* takes only a part, or other writes are waiting already, the rest is     *)
(* written later, from memory that is no longer the message's.             *)
(***************************************************************************)
EXTENDS WireFormat, FiniteSets

CONSTANTS
    Messages,       \* the messages that may be sent
    Capacity,       \* bytes that the socket buffers of both sides hold
    MaxSends        \* bound: messages sent in a behaviour

ASSUME StreamAssumption == Messages \subseteq Message /\ Capacity \in Nat \ {0} /\ MaxSends \in Nat

VARIABLES
    writing,    \* the pieces the running handler still has to write
    wire,       \* the bytes in the socket buffers
    stale,      \* number of bytes that wait to be written after their handler
    header,     \* the header of the message being read, or NoHeader
    buffer,     \* header_buffer, then data_buffer
    unread,     \* history: the messages sent and not read
    got,        \* the message read last
    overrun,    \* history: a piece was not taken at once
    sends       \* number of messages sent

writer == <<writing, stale, overrun, sends>>
reader == <<header, buffer, got>>
streamVars == <<writing, wire, stale, header, buffer, unread, got, overrun, sends>>

NoHeader == [is |-> "none"]
NoMessage == [type |-> "none"]
StaleByte == [of |-> Garbage, at |-> 0]

StreamInit ==
    /\ writing = << >> /\ wire = << >> /\ stale = 0
    /\ header = NoHeader /\ buffer = << >> /\ got = NoMessage
    /\ unread = << >> /\ overrun = FALSE /\ sends = 0

-----------------------------------------------------------------------------
(* The writer.                                                             *)

(* A handler that sends message m starts to write.                         *)
Send(m) ==
    /\ writing = << >>
    /\ sends < MaxSends
    /\ sends' = sends + 1
    /\ writing' = <<HostMessage(m.type, AnnouncedSize(m))>> \o Pieces(m)
    /\ unread' = Append(unread, m)
    /\ UNCHANGED <<wire, stale, overrun>>
    /\ UNCHANGED reader

Room == Capacity - Len(wire)

(* Broken variant of WritePiece: a write that took a part is not gone on   *)
(* with.                                                                   *)
WritePieceSome ==
    /\ writing # << >>
    /\ writing' = Tail(writing)
    /\ LET bytes == Memory(Head(writing))
       IN  wire' = wire \o SubSeq(bytes, 1, IF Len(bytes) <= Room THEN Len(bytes) ELSE Room)
    /\ UNCHANGED <<stale, overrun, sends, unread>>
    /\ UNCHANGED reader

(* async_write of the next piece: a write is tried at once unless another  *)
(* one waits.                                                              *)
WritePiece ==
    /\ writing # << >>
    /\ writing' = Tail(writing)
    /\ LET bytes == Memory(Head(writing))
           taken == IF stale > 0 THEN 0 ELSE IF Len(bytes) <= Room THEN Len(bytes) ELSE Room
       IN  /\ wire' = wire \o SubSeq(bytes, 1, taken)
           /\ stale' = stale + (Len(bytes) - taken)
           /\ overrun' = (overrun \/ taken < Len(bytes))
    /\ UNCHANGED <<sends, unread>>
    /\ UNCHANGED reader

(* The handler has returned and the socket takes more: whatever is now in  *)
(* the memory where the pieces were.                                       *)
WriteLate ==
    /\ writing = << >>
    /\ stale > 0 /\ Room > 0
    /\ LET n == IF stale < Room THEN stale ELSE Room
       IN  wire' = wire \o [k \in 1..n |-> StaleByte] /\ stale' = stale - n
    /\ UNCHANGED <<writing, overrun, sends, unread>>
    /\ UNCHANGED reader

-----------------------------------------------------------------------------
(* The reader.  What it makes of stale bytes is not modelled: it stops     *)
(* before it handles them.                                                 *)
Sane == \A k \in DOMAIN buffer : buffer[k] # StaleByte

Needed == IF header = NoHeader THEN SizeOf.host_message ELSE header.size

(* transfer_exactly: as much as there is, and no more than is missing.     *)
Fetch ==
    /\ wire # << >>
    /\ Len(buffer) < Needed
    /\ LET missing == Needed - Len(buffer)
           n == IF missing < Len(wire) THEN missing ELSE Len(wire)
       IN  /\ buffer' = buffer \o SubSeq(wire, 1, n)
           /\ wire' = SubSeq(wire, n + 1, Len(wire))
    /\ UNCHANGED <<header, got, unread>>
    /\ UNCHANGED writer

(* The message is handed over; reset_buffers and start_read.               *)
HandOver(m) ==
    /\ got' = m
    /\ header' = NoHeader /\ buffer' = << >>
    /\ unread' = IF unread = << >> THEN unread ELSE Tail(unread)
    /\ UNCHANGED wire
    /\ UNCHANGED writer

(* The handler of the header.  A command has nothing after its header.     *)
TakeHeader ==
    /\ header = NoHeader
    /\ Len(buffer) = SizeOf.host_message /\ Sane
    /\ LET shm == StructAt(buffer, 0, "host_message")
       IN  \/ shm.size = 0 /\ HandOver(Decode(shm.message, << >>))
           \/ /\ shm.size > 0
              /\ header' = shm /\ buffer' = << >>
              /\ UNCHANGED <<wire, got, unread>>
              /\ UNCHANGED writer

(* The handler of the data.                                                *)
TakeData ==
    /\ header # NoHeader
    /\ Len(buffer) = header.size /\ Sane
    /\ HandOver(Decode(header.message, buffer))

-----------------------------------------------------------------------------
StreamNext ==
    \/ \E m \in Messages : Send(m)
    \/ WritePiece \/ WriteLate
    \/ Fetch \/ TakeHeader \/ TakeData

StreamSpec == StreamInit /\ [][StreamNext]_streamVars

-----------------------------------------------------------------------------

(* What a MessageChannel promises: messages arrive as they were sent, each *)
(* once and in order, unless a piece had to wait: sizes and offsets of the *)
(* two sides agree for every shape of message (empty lists, empty names,   *)
(* machines without snapshots), however the bytes are cut up on their way. *)
Channel == INSTANCE MessageChannel WITH chan <- unread, last <- got, lost <- overrun
ImplementsChannel == Channel!ChannelSpec

(* The reader never waits for bytes that nobody is going to write: no      *)
(* header announces more than follows.                                     *)
NeverStarves ==
    unread # << >> /\ ~overrun => writing # << >> \/ wire # << >> \/ Len(buffer) = Needed

(* shadow_host_server_message.hpp:9 says of a header: "size of all         *)
(* following packets".  What stands where a reader begins a message is     *)
(* such a size.                                                            *)
HeaderIsASize ==
    header = NoHeader /\ Len(buffer) = SizeOf.host_message =>
        /\ StructAt(buffer, 0, "host_message") # Garbage
        /\ unread # << >>
        /\ StructAt(buffer, 0, "host_message").size = AnnouncedSize(Head(unread))
=============================================================================
