--------------------------- MODULE MessageChannel ---------------------------
(***************************************************************************)
(* What one direction of a connection promises to those who send and       *)
(* receive messages: they arrive whole and in order, none left out, until  *)
(* the receiver falls so far behind that the sender loses track; from then *)
(* on nothing is promised.                                                 *)
(***************************************************************************)
EXTENDS Naturals, Sequences

CONSTANT Messages

VARIABLES
    chan,       \* messages sent and not received
    last,       \* the message received last
    lost        \* nothing is promised any more

channelVars == <<chan, last, lost>>

ChannelInit == chan = << >> /\ lost = FALSE

(* (The first conjunct saves TLC a look at every message.)                 *)
Send ==
    /\ Len(chan') = Len(chan) + 1
    /\ \E m \in Messages : chan' = Append(chan, m)
    /\ UNCHANGED <<last, lost>>

Deliver ==
    /\ ~lost
    /\ chan # << >>
    /\ last' = Head(chan)
    /\ chan' = Tail(chan)
    /\ UNCHANGED lost

(* The step that loses track may be part of a send.                        *)
LoseTrack == lost'

ChannelNext == Send \/ Deliver \/ LoseTrack

ChannelSpec == ChannelInit /\ [][ChannelNext]_channelVars
=============================================================================
