--------------------------- MODULE MCMessageStream ---------------------------
(***************************************************************************)
(* MessageStream for TLC: every kind of message of either side, with every *)
(* list of the bounds.  A name is empty or not; what it is tells the       *)
(* status that goes with it, so that a status which moves is noticed.      *)
(***************************************************************************)
EXTENDS MessageStream

CONSTANTS
    MaxEntries,     \* length of a list
    MaxSnaps        \* snapshots in a message

MCNames == {0, 2}
MCStatus(name) == IF name = 0 THEN "on" ELSE "off"
MCSnapLists == {[k \in 1..n |-> IF k % 2 = 1 THEN <<0, 2>> ELSE <<2, 0>>] : n \in 0..MaxSnaps}
MCEntries(snapLists) == {[name |-> n, status |-> MCStatus(n), snaps |-> sn] : n \in MCNames, sn \in snapLists}
MCLists(entries) == UNION {[1..k -> entries] : k \in 0..MaxEntries}
MCFits(list) == Total([i \in DOMAIN list |-> Len(list[i].snaps)]) <= MaxSnaps

MCMessages ==
    {[type |-> t, status |-> "on"] : t \in {"MAIN_STATUS", "START_SIM"}}
    \cup {[type |-> t] : t \in {"TAKE_CONTROL", "STOP_SIM", "PLAY_SIMICS", "PAUSE_SIMICS"}}
    \cup {[type |-> "APP_INITIAL_STATUS", list |-> l] : l \in MCLists(MCEntries({<< >>}))}
    \cup {[type |-> "VM_LIST", list |-> l] : l \in {k \in MCLists(MCEntries(MCSnapLists)) : MCFits(k)}}
=============================================================================
