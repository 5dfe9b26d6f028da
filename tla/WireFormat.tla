----------------------------- MODULE WireFormat -----------------------------
(***************************************************************************)
(* The messages between server and controller as bytes: what is written    *)
(* (host_server.cpp, client.cpp), piece by piece, and what the reader at   *)
(* the other end makes of the bytes (the same two files).  Both sides      *)
(* compile shadow_host_server_message.hpp and send its structures as they  *)
(* lie in memory.                                                          *)
(*                                                                         *)
(* A byte is [of, at]: it belongs to the piece "of", at offset "at".  A    *)
(* reader that casts &data[it] to a structure sees it only if the bytes    *)
(* there are just that structure's.  A name is abstracted to its length,   *)
(* so that different names have different lengths.                         *)
(***************************************************************************)
EXTENDS Integers, Sequences, SequencesExt

Garbled == 0 - 1        \* what is read in the place of a name

(* sizeof on x86_64, padding included.                                     *)
SizeOf == [host_message |-> 8, main_status |-> 24, total_apps |-> 8, app_status |-> 32,
           total_vm_snapshots |-> 16, config_message |-> 4, uint32 |-> 4]

-----------------------------------------------------------------------------
(* The structures, and the two kinds of plain memory that are written.     *)
HostMessage(type, size) == [is |-> "host_message", message |-> type, size |-> size]
MainStatus(st)          == [is |-> "main_status", status |-> st]
TotalApps(n)            == [is |-> "total_apps", size |-> n]
AppStatus(n, alt, st)   == [is |-> "app_status", size |-> n, alt_size |-> alt, status |-> st]
TotalSnaps(n)           == [is |-> "total_vm_snapshots", size |-> n]
Config(n)               == [is |-> "config_message", status |-> n]
Counts(ns)              == [is |-> "counts", counts |-> ns]       \* snap_sizes.data()
Text(name)              == [is |-> "text", size |-> name]
Garbage == [is |-> "garbage", message |-> "none", size |-> 0, alt_size |-> 0, status |-> "none"]

Bytes(p) == CASE p.is = "text" -> p.size
              [] p.is = "counts" -> Len(p.counts) * SizeOf.uint32
              [] OTHER -> SizeOf[p.is]
Memory(p) == [k \in 1..Bytes(p) |-> [of |-> p, at |-> k]]

-----------------------------------------------------------------------------
(* Messages.  An entry of a list is an application or a machine, which has *)
(* snapshots, each with a name and a description.                          *)
Application == [name : Nat, status : STRING, snaps : {<< >>}]
Machine == [name : Nat, status : STRING, snaps : Seq(Nat \X Nat)]

Message ==
    [type : {"MAIN_STATUS", "START_SIM"}, status : STRING]
    \cup [type : {"TAKE_CONTROL", "STOP_SIM", "PLAY_SIMICS", "PAUSE_SIMICS"}]
    \cup [type : {"APP_INITIAL_STATUS"}, list : Seq(Application)]
    \cup [type : {"VM_LIST"}, list : Seq(Machine)]

Entry(e) == <<AppStatus(e.name, 0, e.status), Text(e.name)>>
Snap(s) == <<AppStatus(s[1], s[2], "none"), Text(s[1]), Text(s[2])>>
Entries(list) == FlattenSeq([i \in DOMAIN list |-> Entry(list[i])])
SnapsOf(e) == FlattenSeq([k \in DOMAIN e.snaps |-> Snap(e.snaps[k])])
Snaps(list) == FlattenSeq([i \in DOMAIN list |-> SnapsOf(list[i])])

(* What follows the header of message m, in the order it is written.       *)
Pieces(m) ==
    CASE m.type = "MAIN_STATUS" -> <<MainStatus(m.status)>>
      [] m.type = "APP_INITIAL_STATUS" -> <<TotalApps(Len(m.list))>> \o Entries(m.list)
      [] m.type = "VM_LIST" ->
            <<TotalApps(Len(m.list))>> \o Entries(m.list)
            \o <<TotalSnaps(Len(m.list)), Counts([i \in DOMAIN m.list |-> Len(m.list[i].snaps)])>>
            \o Snaps(m.list)
      [] m.type = "START_SIM" -> <<Config(m.status)>>
      [] OTHER -> << >>

(* shm.size, which is summed up before anything is written (an uint32_t,   *)
(* which no list of names gets near).                                      *)
Total(ns) ==
    LET upTo[i \in 0..Len(ns)] == IF i = 0 THEN 0 ELSE upTo[i - 1] + ns[i]
    IN  upTo[Len(ns)]

SnapsSize(e) == Total([k \in DOMAIN e.snaps |-> SizeOf.app_status + e.snaps[k][1] + e.snaps[k][2]])
AllSnapsSize(list) == Total([i \in DOMAIN list |-> SnapsSize(list[i])])
ListSize(list) == SizeOf.total_apps + Total([i \in DOMAIN list |-> SizeOf.app_status + list[i].name])
AnnouncedSizeWith(m, countSize) ==
    CASE m.type = "MAIN_STATUS" -> SizeOf.main_status
      [] m.type = "APP_INITIAL_STATUS" -> ListSize(m.list)
      [] m.type = "VM_LIST" ->
            ListSize(m.list)
            + SizeOf.total_vm_snapshots + Len(m.list) * countSize + AllSnapsSize(m.list)
      [] m.type = "START_SIM" -> SizeOf.config_message
      [] OTHER -> 0

(* Broken variant of AnnouncedSize: a count is taken for a size_t.         *)
AnnouncedSizeWide(m) == AnnouncedSizeWith(m, 8)

AnnouncedSize(m) == AnnouncedSizeWith(m, SizeOf.uint32)

-----------------------------------------------------------------------------
(* Reading.                                                                *)

(* n bytes from offset it; what lies behind the data is not known.         *)
BytesAt(data, it, n) == IF it + n <= Len(data) THEN SubSeq(data, it + 1, it + n) ELSE << >>

(* What a cast of &data[it] to a structure of this kind shows.             *)
StructAt(data, it, kind) ==
    IF it < Len(data) /\ data[it + 1].of.is = kind /\ BytesAt(data, it, SizeOf[kind]) = Memory(data[it + 1].of)
    THEN data[it + 1].of ELSE Garbage

TextAt(data, it, n) == IF BytesAt(data, it, n) = Memory(Text(n)) THEN n ELSE Garbled

(* The sizes of the snapshot lists, n of them.                             *)
CountsAt(data, it, n) ==
    IF n > 0 /\ it < Len(data) /\ data[it + 1].of.is = "counts"
       /\ BytesAt(data, it, n * SizeOf.uint32) = Memory(data[it + 1].of)
    THEN data[it + 1].of.counts ELSE [i \in 1..n |-> 0]

(* The loops of the decoders: [it, out] goes through as many structures,   *)
(* each followed by its text or its two texts.                             *)
Start(it) == [it |-> it, out |-> << >>]

NextEntry(data, so) ==
    LET sat == StructAt(data, so.it, "app_status")
        it == so.it + SizeOf.app_status
    IN  [it |-> it + sat.size,
         out |-> Append(so.out, [name |-> TextAt(data, it, sat.size), status |-> sat.status])]

ReadEntries(data, start, n) ==
    LET upTo[i \in 0..n] == IF i = 0 THEN Start(start) ELSE NextEntry(data, upTo[i - 1])
    IN  upTo[n]

NextSnap(data, so) ==
    LET sas == StructAt(data, so.it, "app_status")
        it == so.it + SizeOf.app_status
    IN  [it |-> it + sas.size + sas.alt_size,
         out |-> Append(so.out, <<TextAt(data, it, sas.size), TextAt(data, it + sas.size, sas.alt_size)>>)]

ReadSnaps(data, start, n) ==
    LET upTo[k \in 0..n] == IF k = 0 THEN Start(start) ELSE NextSnap(data, upTo[k - 1])
    IN  upTo[n]

NextSnaps(data, so, n) ==
    LET one == ReadSnaps(data, so.it, n) IN [it |-> one.it, out |-> Append(so.out, one.out)]

ReadAllSnaps(data, start, counts) ==
    LET upTo[i \in 0..Len(counts)] ==
            IF i = 0 THEN Start(start) ELSE NextSnaps(data, upTo[i - 1], counts[i])
    IN  upTo[Len(counts)]

(* The message of this type that the reader makes of the data after the    *)
(* header.  Rejected is the reset of the connection.                       *)
Rejected == [type |-> "REJECTED"]
Decode(type, data) ==
    CASE type = "MAIN_STATUS" -> [type |-> type, status |-> StructAt(data, 0, "main_status").status]
      [] type = "START_SIM" ->
            IF Len(data) = SizeOf.config_message
            THEN [type |-> type, status |-> StructAt(data, 0, "config_message").status] ELSE Rejected
      [] type = "APP_INITIAL_STATUS" ->
            LET apps == ReadEntries(data, SizeOf.total_apps, StructAt(data, 0, "total_apps").size).out
            IN  [type |-> type,
                 list |-> [i \in DOMAIN apps |->
                              [name |-> apps[i].name, status |-> apps[i].status, snaps |-> << >>]]]
      [] type = "VM_LIST" ->
            LET vms == ReadEntries(data, SizeOf.total_apps, StructAt(data, 0, "total_apps").size)
                n == StructAt(data, vms.it, "total_vm_snapshots").size
                sizes == vms.it + SizeOf.total_vm_snapshots
                snaps == ReadAllSnaps(data, sizes + n * SizeOf.uint32, CountsAt(data, sizes, n)).out
            IN  IF Len(snaps) = Len(vms.out)
                THEN [type |-> type,
                      list |-> [i \in DOMAIN snaps |-> [name |-> vms.out[i].name, status |-> vms.out[i].status,
                                                        snaps |-> snaps[i]]]]
                ELSE Rejected
      [] OTHER -> [type |-> type]
=============================================================================
