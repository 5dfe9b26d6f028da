---------------------------- MODULE SnapshotTree ----------------------------
(***************************************************************************)
(* The list that VMHandler makes of a machine's snapshots (vm_handler.cpp: *)
(* list_snapshots, show_snapshots, get_vm_snaps): VirtualBox keeps them as *)
(* a tree; the controller gets a list of names and descriptions, and the   *)
(* place of a snapshot in it is all that is left of its place in the tree. *)
(***************************************************************************)
EXTENDS Naturals, Sequences, FiniteSets, SequencesExt

CONSTANT MaxNodes   \* bound: snapshots of the machine

ASSUME TreeAssumption == MaxNodes \in Nat

VARIABLES
    nodes,      \* the snapshots, 1..n; 1 is the root; numbered so that a child
                \* comes after its parent, and the children of one in the order
                \* in which GetChildren hands them over
    parent,     \* of every other snapshot
    closed,     \* snapshots whose GetChildren fails
    null,       \* snapshots handed over as null pointers
    answers,    \* find_machine and FindSnapshot("") succeed
    listed,     \* list_snapshots has returned
    rows        \* ... this list of [level, snap]

tree == <<nodes, parent, closed, null, answers>>
treeVars == <<tree, listed, rows>>

TreeInit ==
    /\ \E n \in 0..MaxNodes :
        /\ nodes = 1..n
        /\ parent \in {p \in [2..n -> 1..n] : \A k \in 2..n : p[k] < k}
    /\ closed \in SUBSET nodes
    /\ null \in SUBSET (nodes \ {1})
    /\ answers \in BOOLEAN
    /\ listed = FALSE /\ rows = << >>

-----------------------------------------------------------------------------
(* GetChildren: what the loop over a snapshot's children goes through.     *)
Children(k) == IF k \in closed THEN {} ELSE {c \in nodes \ {1} : parent[c] = k}

Row(k, level) == [level |-> level, snap |-> k]

(* Broken variants of ShowSnapshots: a snapshot after its children; a null *)
(* pointer ends the list of children.                                      *)
ShowSnapshotsLast ==
    LET show[k \in nodes] == [level \in Nat |->
            FlattenSeq([c \in nodes |->
                IF c \in Children(k) \ null THEN show[c][level + 1] ELSE << >>])
            \o <<Row(k, level)>>]
    IN  show[1][0]

ShowSnapshotsStop ==
    LET show[k \in nodes] == [level \in Nat |->
            <<Row(k, level)>>
            \o FlattenSeq([c \in nodes |->
                    IF c \in Children(k) /\ \A b \in Children(k) \cap null : c < b
                    THEN show[c][level + 1] ELSE << >>])]
    IN  show[1][0]

(* The root of a subtree, then the lists of its children; null pointers    *)
(* are passed over, and without GetChildren there are no children.         *)
ShowSnapshots ==
    LET show[k \in nodes] == [level \in Nat |->
            <<Row(k, level)>>
            \o FlattenSeq([c \in nodes |->
                    IF c \in Children(k) \ null THEN show[c][level + 1] ELSE << >>])]
    IN  show[1][0]

(* list_snapshots: FindSnapshot("") gives the root.                        *)
ListSnapshots ==
    /\ ~listed
    /\ listed' = TRUE
    /\ rows' = IF answers /\ nodes # {} THEN ShowSnapshots ELSE << >>
    /\ UNCHANGED tree

TreeNext == ListSnapshots

TreeSpec == TreeInit /\ [][TreeNext]_treeVars

-----------------------------------------------------------------------------
(* The tree, said without walking it.                                      *)
Ancestors == LET up[k \in nodes] == IF k = 1 THEN {} ELSE {parent[k]} \cup up[parent[k]] IN up

Seen == {k \in nodes : Ancestors[k] \cap closed = {} /\ (Ancestors[k] \cup {k}) \cap null = {}}

(* j belongs before k: above it, or on an earlier branch.                  *)
Before(j, k) ==
    \/ j \in Ancestors[k]
    \/ \E a \in Ancestors[j] \cup {j}, b \in Ancestors[k] \cup {k} :
            a # 1 /\ b # 1 /\ parent[a] = parent[b] /\ a < b

Listed == listed /\ answers

(* Every snapshot that can be reached is listed once, and no other: one    *)
(* that cannot be asked for its children costs its own subtree only.       *)
EveryoneOnce ==
    Listed /\ nodes # {} =>
        /\ {rows[i].snap : i \in DOMAIN rows} = Seen
        /\ Len(rows) = Cardinality(Seen)

(* A snapshot stands before all that were taken from it, and branches are  *)
(* not mixed.                                                              *)
BranchesStayTogether == Listed => \A i, j \in DOMAIN rows : i < j => Before(rows[i].snap, rows[j].snap)

=============================================================================
