---------------------- MODULE SaveAndRestoreScreenProofs ----------------------
(***************************************************************************)
(* Proofs about SaveAndRestoreScreen and the lists it looks at             *)
(* (VMListView): their type invariant, all their safety invariants and     *)
(* their action property, for any number of VM_LISTs, of machines and of   *)
(* snapshots, and any number of connections.                               *)
(*                                                                         *)
(* The argument: what is posted and not yet heard leads the lists, post by *)
(* post, from where they are to what they are due to show.                 *)
(***************************************************************************)
EXTENDS SaveAndRestoreScreen, SequenceLemmas

-----------------------------------------------------------------------------
(* Where the listeners are: what they wait for next (port: a port of       *)
(* elements, with the message, the machine and the snapshot of the next    *)
(* one, number 0 being the number of snapshots; or no element at all), and *)
(* the messages of the lists on display.                                   *)
Lists == {lists \in Seq(VMLists) : Len(lists) <= MaxMessages}

Place(lists, s) ==
    /\ s.port = "none" => s.id = 0 /\ s.i = 0 /\ s.k = 0
    /\ s.port # "none" => s.id \in 1..Len(lists) /\ s.i \in 1..Len(lists[s.id])
    /\ s.port = "vmListPort" => s.k = 0
    /\ s.port \in SnapPorts => s.vm = s.id /\ s.k \in 0..lists[s.id][s.i]

StageRecord(lists) ==
    [port : {"none", "vmListPort"} \cup SnapPorts, id : Nat, i : Nat, k : Nat,
     up : BOOLEAN, vm : 0..Len(lists), snaps : [SnapPorts -> 0..Len(lists)]]

Stages(lists) == {s \in StageRecord(lists) : Place(lists, s)}

Resting(up, vm, snaps) ==
    [port |-> "none", id |-> 0, i |-> 0, k |-> 0, up |-> up, vm |-> vm, snaps |-> snaps]

(* The steps: which post is expected at s, and where it leads.             *)
HearsConnection(s, post, t) ==
    /\ s.port = "none"
    /\ \E status \in BOOLEAN :
           /\ post = [port |-> "connectionPort", status |-> status]
           /\ t = [s EXCEPT !.up = status, !.vm = IF s.up /\ ~status THEN 0 ELSE s.vm]

Names(id, n) == [m \in 1..n |-> <<id, m>>]
SnapNames(id, i, n) == [k \in 1..n |-> <<id, i, k>>]
SnapLists(lists, id, n) == [i \in 1..n |-> SnapNames(id, i, lists[id][i])]

HearsRunningList(lists, s, post, t) ==
    /\ s.port = "none"
    /\ \E id \in 1..Len(lists) :
           /\ post = [port |-> "vmRunningListPort", data |-> Names(id, Len(lists[id]))]
           /\ t = IF Len(lists[id]) = 0 THEN s
                  ELSE [s EXCEPT !.port = "vmListPort", !.id = id, !.i = 1]

HearsName(lists, s, post, t) ==
    /\ s.port = "vmListPort"
    /\ post = [port |-> "vmListPort", name |-> <<s.id, s.i>>]
    /\ t = IF s.i < Len(lists[s.id]) THEN [s EXCEPT !.i = s.i + 1]
           ELSE [s EXCEPT !.port = "snapNamesPort", !.i = 1, !.vm = s.id]

(* The list of a machine is whole, and perhaps those of all machines.      *)
Whole(lists, s) ==
    IF s.i < Len(lists[s.id]) THEN [s EXCEPT !.i = s.i + 1, !.k = 0]
    ELSE IF s.port = "snapNamesPort"
    THEN [s EXCEPT !.port = "snapDescPort", !.i = 1, !.k = 0,
                   !.snaps = [s.snaps EXCEPT !["snapNamesPort"] = s.id]]
    ELSE Resting(s.up, s.vm, [s.snaps EXCEPT !["snapDescPort"] = s.id])

SnapPost(lists, s) ==
    IF s.k = 0 THEN [port |-> s.port, size |-> lists[s.id][s.i]]
    ELSE [port |-> s.port, name |-> <<s.id, s.i, s.k>>]

HearsSnap(lists, s, post, t) ==
    /\ s.port \in SnapPorts
    /\ post = SnapPost(lists, s)
    /\ t = IF s.k < lists[s.id][s.i] THEN [s EXCEPT !.k = s.k + 1] ELSE Whole(lists, s)

Step(lists, s, post, t) ==
    \/ HearsConnection(s, post, t)
    \/ HearsRunningList(lists, s, post, t)
    \/ HearsName(lists, s, post, t)
    \/ HearsSnap(lists, s, post, t)

(* The posts lead from s to t.                                             *)
Leads(lists, s, posts, t) ==
    /\ posts \in Seq(Post)
    /\ \E at \in [0..Len(posts) -> Stages(lists)] :
           /\ at[0] = s /\ at[Len(posts)] = t
           /\ \A j \in 1..Len(posts) : Step(lists, at[j - 1], posts[j], at[j])

-----------------------------------------------------------------------------
(* Sequences of posts.                                                     *)

LEMMA LeadsNowhere ==
    ASSUME NEW lists, NEW s \in Stages(lists)
    PROVE  Leads(lists, s, << >>, s)
<1> DEFINE at == [j \in 0..Len(<< >>) |-> s]
<1>1. at \in [0..Len(<< >>) -> Stages(lists)] /\ at[0] = s /\ at[Len(<< >>)] = s
    OBVIOUS
<1>2. \A j \in 1..Len(<< >>) : Step(lists, at[j - 1], << >>[j], at[j])
    OBVIOUS
<1>3. << >> \in Seq(Post)
    OBVIOUS
<1> HIDE DEF at
<1>4. QED BY <1>1, <1>2, <1>3 DEF Leads

(* ... and only to where one is.                                           *)
LEMMA NothingLeadsNowhere ==
    ASSUME NEW lists, NEW s, NEW t, Leads(lists, s, << >>, t)
    PROVE  s = t
    BY DEF Leads

(* One post leads as far as a step.                                        *)
LEMMA LeadsByOne ==
    ASSUME NEW lists, NEW s \in Stages(lists), NEW t \in Stages(lists), NEW post \in Post,
           Step(lists, s, post, t)
    PROVE  Leads(lists, s, <<post>>, t)
<1> DEFINE at == [j \in 0..Len(<<post>>) |-> IF j = 0 THEN s ELSE t]
<1>1. Len(<<post>>) = 1 /\ <<post>> \in Seq(Post) /\ <<post>>[1] = post
    OBVIOUS
<1>2. at \in [0..Len(<<post>>) -> Stages(lists)] /\ at[0] = s /\ at[1] = t
    BY <1>1
<1>3. ASSUME NEW j \in 1..Len(<<post>>) PROVE Step(lists, at[j - 1], <<post>>[j], at[j])
    <2>1. j = 1 /\ j - 1 = 0
        BY <1>1
    <2> HIDE DEF at
    <2>2. QED BY <1>1, <1>2, <2>1
<1> HIDE DEF at
<1>4. QED BY <1>1, <1>2, <1>3 DEF Leads

(* Posts that lead to where others lead on from.                           *)
LEMMA LeadsOn ==
    ASSUME NEW lists, NEW s, NEW t, NEW u, NEW a, NEW b,
           Leads(lists, s, a, t), Leads(lists, t, b, u)
    PROVE  Leads(lists, s, a \o b, u)
<1>1. PICK f \in [0..Len(a) -> Stages(lists)] :
          /\ f[0] = s /\ f[Len(a)] = t
          /\ \A j \in 1..Len(a) : Step(lists, f[j - 1], a[j], f[j])
    BY DEF Leads
<1>2. PICK g \in [0..Len(b) -> Stages(lists)] :
          /\ g[0] = t /\ g[Len(b)] = u
          /\ \A j \in 1..Len(b) : Step(lists, g[j - 1], b[j], g[j])
    BY DEF Leads
<1>3. a \in Seq(Post) /\ b \in Seq(Post) /\ Len(a) \in Nat /\ Len(b) \in Nat
    BY DEF Leads
<1>4. /\ a \o b \in Seq(Post) /\ Len(a \o b) = Len(a) + Len(b)
      /\ \A j \in 1..Len(a) + Len(b) : (a \o b)[j] = IF j <= Len(a) THEN a[j] ELSE b[j - Len(a)]
    BY <1>3, ConcatProperties
<1> DEFINE at == [j \in 0..Len(a) + Len(b) |-> IF j <= Len(a) THEN f[j] ELSE g[j - Len(a)]]
<1>5. at \in [0..Len(a) + Len(b) -> Stages(lists)]
    BY <1>1, <1>2, <1>3
<1>6. \A j \in 0..Len(a) : at[j] = f[j]
    BY <1>3
<1>7. \A j \in 0..Len(b) : at[Len(a) + j] = g[j]
    BY <1>1, <1>2, <1>3
<1> HIDE DEF at
<1>8. at[0] = s /\ at[Len(a) + Len(b)] = u
    BY <1>1, <1>2, <1>3, <1>6, <1>7
<1>9. ASSUME NEW j \in 1..Len(a) + Len(b) PROVE Step(lists, at[j - 1], (a \o b)[j], at[j])
    <2>1. CASE j <= Len(a)
        <3>1. j \in 1..Len(a) /\ j \in 0..Len(a) /\ j - 1 \in 0..Len(a)
            BY <1>3, <2>1
        <3>2. at[j] = f[j] /\ at[j - 1] = f[j - 1] /\ (a \o b)[j] = a[j]
            BY <1>4, <1>6, <2>1, <3>1
        <3>3. QED BY <1>1, <3>1, <3>2
    <2>2. CASE ~(j <= Len(a))
        <3> DEFINE i == j - Len(a)
        <3>1. /\ i \in 1..Len(b) /\ i \in 0..Len(b) /\ i - 1 \in 0..Len(b)
              /\ Len(a) + i = j /\ Len(a) + (i - 1) = j - 1
            BY <1>3, <2>2
        <3>2. at[j] = g[i] /\ at[j - 1] = g[i - 1] /\ (a \o b)[j] = b[i]
            BY <1>4, <1>7, <2>2, <3>1
        <3> HIDE DEF i
        <3>3. QED BY <1>2, <3>1, <3>2
    <2>3. QED BY <2>1, <2>2
<1>10. QED BY <1>4, <1>5, <1>8, <1>9 DEF Leads

(* The first post leads to where the others lead on from.                  *)
LEMMA LeadsByTheFirst ==
    ASSUME NEW lists, NEW s, NEW t, NEW posts, posts # << >>, Leads(lists, s, posts, t)
    PROVE  /\ s \in Stages(lists) /\ t \in Stages(lists)
           /\ \E m \in Stages(lists) :
                 Step(lists, s, Head(posts), m) /\ Leads(lists, m, Tail(posts), t)
<1>1. PICK f \in [0..Len(posts) -> Stages(lists)] :
          /\ f[0] = s /\ f[Len(posts)] = t
          /\ \A j \in 1..Len(posts) : Step(lists, f[j - 1], posts[j], f[j])
    BY DEF Leads
<1>2. /\ posts \in Seq(Post) /\ Tail(posts) \in Seq(Post) /\ Len(posts) \in Nat \ {0}
      /\ Len(Tail(posts)) = Len(posts) - 1 /\ Head(posts) = posts[1]
      /\ \A j \in 1..Len(posts) - 1 : Tail(posts)[j] = posts[j + 1]
    BY HeadTailProperties DEF Leads
<1> DEFINE at == [j \in 0..Len(posts) - 1 |-> f[j + 1]]
<1>3. at \in [0..Len(posts) - 1 -> Stages(lists)]
    BY <1>1, <1>2
<1>4. \A j \in 0..Len(posts) - 1 : at[j] = f[j + 1]
    OBVIOUS
<1> HIDE DEF at
<1>5. at[0] = f[1] /\ at[Len(posts) - 1] = t
    BY <1>1, <1>2, <1>4
<1>6. ASSUME NEW j \in 1..Len(posts) - 1 PROVE Step(lists, at[j - 1], Tail(posts)[j], at[j])
    <2>1. j \in 0..Len(posts) - 1 /\ j - 1 \in 0..Len(posts) - 1 /\ (j - 1) + 1 = j
          /\ j + 1 \in 1..Len(posts) /\ (j + 1) - 1 = j
        BY <1>2
    <2>2. at[j - 1] = f[j] /\ at[j] = f[j + 1] /\ Tail(posts)[j] = posts[j + 1]
        BY <1>2, <1>4, <2>1
    <2>3. Step(lists, f[j], posts[j + 1], f[j + 1])
        BY <1>1, <2>1
    <2>4. QED BY <2>2, <2>3
<1>7. Leads(lists, f[1], Tail(posts), t)
    BY <1>2, <1>3, <1>5, <1>6 DEF Leads
<1>8. Step(lists, s, Head(posts), f[1])
    <2>1. 1 \in 1..Len(posts) /\ 1 - 1 = 0
        BY <1>2
    <2>2. Step(lists, f[1 - 1], posts[1], f[1])
        BY <1>1, <2>1
    <2>3. QED BY <1>1, <1>2, <2>1, <2>2
<1>9. f[1] \in Stages(lists) /\ s \in Stages(lists) /\ t \in Stages(lists)
    BY <1>1, <1>2
<1>10. QED BY <1>7, <1>8, <1>9

-----------------------------------------------------------------------------
(* VM_LISTs are added, and those there are stay as they are.               *)

LEMMA ListTypes ==
    ASSUME NEW lists \in Lists
    PROVE  /\ Len(lists) \in 0..MaxMessages
           /\ \A id \in 1..Len(lists) :
                 /\ lists[id] \in VMLists
                 /\ lists[id] \in Seq(0..MaxSnaps) /\ Len(lists[id]) \in 0..MaxVMs
                 /\ \A i \in 1..Len(lists[id]) : lists[id][i] \in 0..MaxSnaps
<1>1. \A vms \in VMLists : /\ vms \in Seq(0..MaxSnaps) /\ Len(vms) \in 0..MaxVMs
                           /\ \A i \in 1..Len(vms) : vms[i] \in 0..MaxSnaps
    <2>1. SUFFICES ASSUME NEW n \in 0..MaxVMs, NEW vms \in [1..n -> 0..MaxSnaps]
                   PROVE  /\ vms \in Seq(0..MaxSnaps) /\ Len(vms) \in 0..MaxVMs
                          /\ \A i \in 1..Len(vms) : vms[i] \in 0..MaxSnaps
        BY DEF VMLists
    <2>2. n \in Nat
        BY VMListViewAssumption
    <2>3. \A S : \A f \in [1..n -> S] : f \in Seq(S) /\ Len(f) = n
        BY <2>2
    <2>4. vms \in Seq(0..MaxSnaps) /\ Len(vms) = n
        BY <2>3
    <2>5. QED BY <2>4
<1>2. lists \in Seq(VMLists) /\ Len(lists) \in 0..MaxMessages
    BY VMListViewAssumption DEF Lists
<1>3. \A id \in 1..Len(lists) : lists[id] \in VMLists
    BY <1>2
<1>4. QED BY <1>1, <1>2, <1>3

(* A further VM_LIST takes no stage away ...                               *)
LEMMA StagesGrow ==
    ASSUME NEW lists \in Lists, NEW more \in Lists, Len(lists) <= Len(more),
           \A id \in 1..Len(lists) : more[id] = lists[id]
    PROVE  Stages(lists) \subseteq Stages(more)
<1>1. Len(lists) \in Nat /\ Len(more) \in Nat
    BY ListTypes
<1>2. SUFFICES ASSUME NEW s \in Stages(lists) PROVE s \in Stages(more)
    OBVIOUS
<1>3. s \in StageRecord(lists) /\ Place(lists, s)
    BY DEF Stages
<1>4. Place(more, s)
    BY <1>1, <1>3 DEF Place, SnapPorts
<1>5. s.vm \in 0..Len(more) /\ s.snaps \in [SnapPorts -> 0..Len(more)]
    BY <1>1, <1>3 DEF StageRecord
<1>6. s \in StageRecord(more)
    BY <1>3, <1>5 DEF StageRecord
<1>7. QED BY <1>4, <1>6 DEF Stages

(* ... and changes nothing about where the posts of those before lead.     *)
LEMMA LeadsStill ==
    ASSUME NEW lists \in Lists, NEW more \in Lists, Len(lists) <= Len(more),
           \A id \in 1..Len(lists) : more[id] = lists[id],
           NEW s, NEW t, NEW posts, Leads(lists, s, posts, t)
    PROVE  Leads(more, s, posts, t)
<1>1. PICK f \in [0..Len(posts) -> Stages(lists)] :
          /\ f[0] = s /\ f[Len(posts)] = t
          /\ \A j \in 1..Len(posts) : Step(lists, f[j - 1], posts[j], f[j])
    BY DEF Leads
<1>2. f \in [0..Len(posts) -> Stages(more)]
    BY <1>1, StagesGrow
<1>3. ASSUME NEW a \in Stages(lists), NEW b, NEW post, Step(lists, a, post, b)
      PROVE  Step(more, a, post, b)
    <2>1. a.port # "none" => more[a.id] = lists[a.id]
        BY DEF Stages, Place
    <2>2. CASE HearsConnection(a, post, b)
        BY <2>2 DEF Step
    <2>3. CASE HearsRunningList(lists, a, post, b)
        <3>1. Len(lists) \in Nat /\ Len(more) \in Nat
            BY ListTypes
        <3>2. PICK id \in 1..Len(lists) :
                  /\ post = [port |-> "vmRunningListPort", data |-> Names(id, Len(lists[id]))]
                  /\ b = IF Len(lists[id]) = 0 THEN a
                         ELSE [a EXCEPT !.port = "vmListPort", !.id = id, !.i = 1]
            BY <2>3 DEF HearsRunningList
        <3>3. id \in 1..Len(more) /\ more[id] = lists[id]
            BY <3>1
        <3>4. HearsRunningList(more, a, post, b)
            BY <2>3, <3>2, <3>3 DEF HearsRunningList
        <3>5. QED BY <3>4 DEF Step
    <2>4. CASE HearsName(lists, a, post, b)
        BY <2>1, <2>4 DEF Step, HearsName
    <2>5. CASE HearsSnap(lists, a, post, b)
        <3>1. more[a.id] = lists[a.id]
            BY <2>1, <2>5 DEF HearsSnap, SnapPorts
        <3>2. HearsSnap(more, a, post, b)
            BY <2>5, <3>1 DEF HearsSnap, SnapPost, Whole
        <3>3. QED BY <3>2 DEF Step
    <2>6. QED BY <1>3, <2>2, <2>3, <2>4, <2>5 DEF Step
<1>4. \A j \in 1..Len(posts) : Step(more, f[j - 1], posts[j], f[j])
    <2>1. SUFFICES ASSUME NEW j \in 1..Len(posts) PROVE Step(more, f[j - 1], posts[j], f[j])
        OBVIOUS
    <2>2. Len(posts) \in Nat
        BY DEF Leads
    <2>3. f[j - 1] \in Stages(lists) /\ Step(lists, f[j - 1], posts[j], f[j])
        BY <1>1, <2>2
    <2>4. QED BY <1>3, <2>3
<1>5. posts \in Seq(Post)
    BY DEF Leads
<1>6. QED BY <1>1, <1>2, <1>4, <1>5 DEF Leads

-----------------------------------------------------------------------------
(* What a VM_LIST posts leads from one resting place to another.           *)

LEMMA PostTypes ==
    /\ \A status \in BOOLEAN : [port |-> "connectionPort", status |-> status] \in Post
    /\ \A data \in Seq(MachineName) : [port |-> "vmRunningListPort", data |-> data] \in Post
    /\ \A name \in MachineName : [port |-> "vmListPort", name |-> name] \in Post
    /\ \A p \in SnapPorts : /\ \A n \in 0..MaxSnaps : [port |-> p, size |-> n] \in Post
                            /\ \A name \in SnapName : [port |-> p, name |-> name] \in Post
    BY DEF Post

LEMMA NameTypes ==
    ASSUME NEW lists \in Lists, NEW id \in 1..Len(lists), NEW i \in 1..Len(lists[id])
    PROVE  /\ <<id, i>> \in MachineName
           /\ \A k \in 1..lists[id][i] : <<id, i, k>> \in SnapName
<1>1. id \in 1..MaxMessages /\ i \in 1..MaxVMs /\ lists[id][i] \in 0..MaxSnaps
    BY ListTypes, VMListViewAssumption
<1>2. \A k \in 1..lists[id][i] : k \in 1..MaxSnaps
    BY <1>1, VMListViewAssumption
<1>3. QED BY <1>1, <1>2 DEF MachineName, SnapName

(* What holds at every stage, and what makes one.                          *)
LEMMA StageTypes ==
    ASSUME NEW lists \in Lists, NEW s \in Stages(lists)
    PROVE  /\ s \in StageRecord(lists)
           /\ Place(lists, s)
           /\ Len(lists) \in Nat
           /\ s.port # "none" =>
                 /\ s.id \in 1..Len(lists)
                 /\ Len(lists[s.id]) \in Nat
                 /\ s.i \in 1..Len(lists[s.id])
                 /\ lists[s.id][s.i] \in Nat
<1>1. Place(lists, s) /\ Len(lists) \in Nat
    BY ListTypes DEF Stages
<1>2. s.port # "none" => s.id \in 1..Len(lists) /\ s.i \in 1..Len(lists[s.id])
    BY <1>1 DEF Place
<1>3. QED BY <1>1, <1>2, ListTypes, VMListViewAssumption DEF Stages

LEMMA ElementOfStages ==
    ASSUME NEW lists, NEW s \in StageRecord(lists),
           s.port # "none",
           s.id \in 1..Len(lists), s.i \in 1..Len(lists[s.id]),
           s.port = "vmListPort" => s.k = 0,
           s.port \in SnapPorts => s.vm = s.id /\ s.k \in 0..lists[s.id][s.i]
    PROVE  s \in Stages(lists)
    BY DEF Stages, Place

LEMMA RestingIsAStage ==
    ASSUME NEW lists \in Lists, NEW up \in BOOLEAN, NEW vm \in 0..Len(lists),
           NEW snaps \in [SnapPorts -> 0..Len(lists)]
    PROVE  Resting(up, vm, snaps) \in Stages(lists)
    BY DEF Resting, Stages, Place, SnapPorts, StageRecord

LEMMA WholeIsAStage ==
    ASSUME NEW lists \in Lists, NEW s \in Stages(lists), s.port \in SnapPorts
    PROVE  Whole(lists, s) \in Stages(lists)
<1>1. s.port # "none" /\ s.port # "vmListPort"
    BY DEF SnapPorts
<1>2. /\ s.id \in 1..Len(lists) /\ Len(lists[s.id]) \in Nat /\ s.i \in 1..Len(lists[s.id])
      /\ s.vm = s.id /\ s.snaps \in [SnapPorts -> 0..Len(lists)] /\ s.up \in BOOLEAN /\ s.vm \in 0..Len(lists)
      /\ Len(lists) \in Nat
    BY <1>1, StageTypes DEF Place, StageRecord
<1>3. \A i \in 1..Len(lists[s.id]) : lists[s.id][i] \in Nat
    BY <1>2, ListTypes, VMListViewAssumption
<1>4. \A p \in SnapPorts : [s.snaps EXCEPT ![p] = s.id] \in [SnapPorts -> 0..Len(lists)]
    BY <1>2
<1>5. CASE s.i < Len(lists[s.id])
    <2>1. s.i + 1 \in 1..Len(lists[s.id]) /\ lists[s.id][s.i + 1] \in Nat
        BY <1>2, <1>3, <1>5
    <2> DEFINE t == [s EXCEPT !.i = s.i + 1, !.k = 0]
    <2>2. s.i + 1 \in Nat /\ s \in StageRecord(lists)
        BY <1>2, StageTypes
    <2>3. /\ t.port = s.port /\ t.id = s.id /\ t.i = s.i + 1 /\ t.k = 0 /\ t.vm = s.vm
          /\ t \in StageRecord(lists)
        BY <2>2 DEF StageRecord
    <2>4. Whole(lists, s) = t
        BY <1>5 DEF Whole
    <2> HIDE DEF t
    <2>5. /\ t.port # "none" /\ t.port # "vmListPort"
          /\ t.id \in 1..Len(lists) /\ t.vm = t.id
        BY <1>1, <1>2, <2>3
    <2>6. t.i \in 1..Len(lists[t.id]) /\ t.k \in 0..lists[t.id][t.i]
        BY <2>1, <2>3
    <2>7. t \in Stages(lists)
        BY <2>3, <2>5, <2>6, ElementOfStages
    <2>8. QED BY <2>4, <2>7
<1>6. CASE ~(s.i < Len(lists[s.id])) /\ s.port = "snapNamesPort"
    <2>1. 1 \in 1..Len(lists[s.id])
        BY <1>2
    <2>2. lists[s.id][1] \in Nat
        BY <1>3, <2>1
    <2> DEFINE snaps == [s.snaps EXCEPT !["snapNamesPort"] = s.id]
    <2>3. snaps \in [SnapPorts -> 0..Len(lists)] /\ "snapDescPort" \in SnapPorts
        BY <1>4 DEF SnapPorts
    <2>4. Whole(lists, s) = [s EXCEPT !.port = "snapDescPort", !.i = 1, !.k = 0, !.snaps = snaps]
        BY <1>6 DEF Whole
    <2> HIDE DEF snaps
    <2> DEFINE t == [s EXCEPT !.port = "snapDescPort", !.i = 1, !.k = 0, !.snaps = snaps]
    <2>5. s \in StageRecord(lists)
        BY StageTypes
    <2>6. /\ t.port = "snapDescPort" /\ t.id = s.id /\ t.i = 1 /\ t.k = 0 /\ t.vm = s.vm
          /\ t \in StageRecord(lists)
        BY <2>3, <2>5 DEF StageRecord
    <2> HIDE DEF t
    <2>7. 0 \in 0..lists[s.id][1]
        BY <2>2
    <2>8. t \in Stages(lists)
        BY <1>2, <2>1, <2>3, <2>6, <2>7, ElementOfStages
    <2>9. QED BY <2>4, <2>8 DEF t
<1>7. CASE ~(s.i < Len(lists[s.id])) /\ s.port # "snapNamesPort"
    <2>1. [s.snaps EXCEPT !["snapDescPort"] = s.id] \in [SnapPorts -> 0..Len(lists)]
        BY <1>4 DEF SnapPorts
    <2>2. QED BY <1>2, <1>7, <2>1, RestingIsAStage DEF Whole
<1>8. QED BY <1>5, <1>6, <1>7

(* The names of the machines, at the end of which they are on display.     *)
LEMMA NamesLead ==
    ASSUME NEW lists \in Lists, NEW s \in Stages(lists), s.port = "vmListPort", s.i = 1
    PROVE  Leads(lists, s, [i \in 1..Len(lists[s.id]) |-> [port |-> "vmListPort", name |-> <<s.id, i>>]],
                 [s EXCEPT !.port = "snapNamesPort", !.i = 1, !.vm = s.id])
<1> DEFINE L == Len(lists[s.id])
           t == [s EXCEPT !.port = "snapNamesPort", !.i = 1, !.vm = s.id]
           posts == [i \in 1..L |-> [port |-> "vmListPort", name |-> <<s.id, i>>]]
           at == [j \in 0..L |-> IF j < L THEN [s EXCEPT !.i = j + 1] ELSE t]
<1>1. s.id \in 1..Len(lists) /\ L \in Nat /\ 1 \in 1..L /\ lists[s.id][1] \in Nat
    BY StageTypes DEF StageRecord
<1>2. t \in Stages(lists)
    <2>1. s.id \in 0..Len(lists) /\ s \in StageRecord(lists)
        BY <1>1, StageTypes
    <2>2. /\ t.port = "snapNamesPort" /\ t.id = s.id /\ t.i = 1 /\ t.k = s.k /\ t.vm = s.id
          /\ t \in StageRecord(lists)
        BY <2>1 DEF StageRecord, SnapPorts
    <2>3. s.k = 0
        BY StageTypes DEF Place
    <2> HIDE DEF t, L
    <2>4. QED BY <1>1, <2>2, <2>3, ElementOfStages DEF L
<1> HIDE DEF L
<1>3. ASSUME NEW j \in 0..L - 1 PROVE [s EXCEPT !.i = j + 1] \in Stages(lists)
    <2> DEFINE r == [s EXCEPT !.i = j + 1]
    <2>1. j + 1 \in Nat /\ j + 1 \in 1..L
        BY <1>1
    <2>2. s \in StageRecord(lists) /\ s.k = 0
        BY StageTypes DEF Place, SnapPorts
    <2>3. /\ r.port = "vmListPort" /\ r.id = s.id /\ r.i = j + 1 /\ r.k = 0
          /\ r \in StageRecord(lists)
        BY <2>1, <2>2 DEF StageRecord
    <2> HIDE DEF r
    <2>4. r \in Stages(lists)
        BY <1>1, <2>1, <2>3, ElementOfStages DEF L, SnapPorts
    <2>5. QED BY <2>4 DEF r
<1>4. s = [s EXCEPT !.i = 0 + 1]
    BY StageTypes DEF StageRecord
<1>5. posts \in Seq(Post) /\ Len(posts) = L
    <2>1. \A i \in 1..L : [port |-> "vmListPort", name |-> <<s.id, i>>] \in Post
        BY <1>1, NameTypes, PostTypes DEF L
    <2>2. QED BY <1>1, <2>1
<1>6. \A j \in 1..L : posts[j] = [port |-> "vmListPort", name |-> <<s.id, j>>]
    OBVIOUS
<1> HIDE DEF posts
<1>7. ASSUME NEW j \in 1..L PROVE Step(lists, at[j - 1], posts[j], at[j])
    <2>1. at[j - 1] = [s EXCEPT !.i = j]
        BY <1>1
    <2>2. at[j] = IF j < L THEN [s EXCEPT !.i = j + 1] ELSE t
        BY <1>1
    <2> HIDE DEF at
    <2> DEFINE r == [s EXCEPT !.i = j]
    <2>3. r.port = "vmListPort" /\ r.id = s.id /\ r.i = j
        BY StageTypes DEF StageRecord
    <2>4. [s EXCEPT !.i = j + 1] = [r EXCEPT !.i = j + 1]
        BY StageTypes DEF StageRecord
    <2>5. t = [r EXCEPT !.port = "snapNamesPort", !.i = 1, !.vm = s.id]
        BY StageTypes DEF StageRecord
    <2> HIDE DEF r, t
    <2>6. HearsName(lists, r, posts[j], at[j])
        BY <1>6, <2>2, <2>3, <2>4, <2>5 DEF HearsName, L
    <2>7. QED BY <2>1, <2>6 DEF Step, r
<1>8. at \in [0..L -> Stages(lists)] /\ at[0] = s /\ at[L] = t
    BY <1>1, <1>2, <1>3, <1>4
<1> HIDE DEF at, t
<1>9. Leads(lists, s, posts, t)
    BY <1>5, <1>7, <1>8 DEF Leads
<1>10. QED BY <1>9 DEF L, t, posts

(* The snapshots of one machine, to one port.                              *)
LEMMA MachineLeads ==
    ASSUME NEW lists \in Lists, NEW s \in Stages(lists), s.port \in SnapPorts, s.k = 0
    PROVE  Leads(lists, s,
                 <<[port |-> s.port, size |-> lists[s.id][s.i]]>>
                     \o [k \in 1..lists[s.id][s.i] |-> [port |-> s.port, name |-> <<s.id, s.i, k>>]],
                 Whole(lists, s))
<1> DEFINE n == lists[s.id][s.i]
           size == <<[port |-> s.port, size |-> n]>>
           names == [k \in 1..n |-> [port |-> s.port, name |-> <<s.id, s.i, k>>]]
           posts == size \o names
           at == [j \in 0..n + 1 |-> IF j <= n THEN [s EXCEPT !.k = j] ELSE Whole(lists, s)]
<1>1. s.port # "none" /\ s.port # "vmListPort"
    BY DEF SnapPorts
<1>2. /\ s.id \in 1..Len(lists) /\ s.i \in 1..Len(lists[s.id])
      /\ s.vm = s.id /\ n \in 0..MaxSnaps /\ n \in Nat
    BY <1>1, StageTypes, ListTypes, VMListViewAssumption DEF Place
<1> HIDE DEF n
<1>3. names \in Seq(Post) /\ Len(names) = n
    <2>1. \A k \in 1..n : [port |-> s.port, name |-> <<s.id, s.i, k>>] \in Post
        BY <1>2, NameTypes, PostTypes DEF n
    <2>2. QED BY <1>2, <2>1
<1>4. size \in Seq(Post) /\ Len(size) = 1 /\ size[1] = [port |-> s.port, size |-> n]
    BY <1>2, PostTypes
<1>5. \A k \in 1..n : names[k] = [port |-> s.port, name |-> <<s.id, s.i, k>>]
    OBVIOUS
<1> HIDE DEF names, size
<1>6. /\ posts \in Seq(Post) /\ Len(posts) = n + 1
      /\ \A j \in 1..n + 1 : posts[j] = IF j <= 1 THEN size[j] ELSE names[j - 1]
    <2>1. /\ posts \in Seq(Post) /\ Len(posts) = Len(size) + Len(names)
          /\ \A j \in 1..Len(size) + Len(names) :
                 posts[j] = IF j <= Len(size) THEN size[j] ELSE names[j - Len(size)]
        BY <1>3, <1>4, ConcatProperties
    <2> HIDE DEF posts
    <2>2. Len(size) + Len(names) = n + 1
        BY <1>2, <1>3, <1>4
    <2>3. QED BY <1>3, <1>4, <2>1, <2>2
<1> HIDE DEF posts
<1>7. \A j \in 0..n : [s EXCEPT !.k = j] \in Stages(lists)
    BY <1>1, <1>2, StageTypes DEF Stages, Place, n, StageRecord
<1>8. Whole(lists, s) \in Stages(lists)
    BY WholeIsAStage
<1>9. s = [s EXCEPT !.k = 0]
    BY StageTypes DEF StageRecord
<1>10. ASSUME NEW j \in 1..n + 1 PROVE Step(lists, at[j - 1], posts[j], at[j])
    <2>1. at[j - 1] = [s EXCEPT !.k = j - 1]
        BY <1>2
    <2>2. at[j] = IF j <= n THEN [s EXCEPT !.k = j] ELSE Whole(lists, s)
        BY <1>2
    <2> HIDE DEF at
    <2> DEFINE r == [s EXCEPT !.k = j - 1]
    <2>3. (j - 1) + 1 = j
        BY <1>2
    <2>4. /\ r.port = s.port /\ r.id = s.id /\ r.i = s.i /\ r.k = j - 1 /\ r.vm = s.vm /\ r.up = s.up
          /\ r.snaps = s.snaps
          /\ [r EXCEPT !.k = r.k + 1] = [s EXCEPT !.k = j]
        BY <1>2, <2>3, StageTypes DEF StageRecord
    <2>5. Whole(lists, r) = Whole(lists, s)
        BY StageTypes DEF Whole, StageRecord
    <2> HIDE DEF r
    <2>6. posts[j] = SnapPost(lists, r)
        <3>1. CASE j = 1
            <4>1. posts[j] = [port |-> s.port, size |-> n] /\ r.k = 0
                BY <1>2, <1>4, <1>6, <2>4, <3>1
            <4>2. QED BY <2>4, <4>1 DEF SnapPost, n
        <3>2. CASE j # 1
            <4>1. j - 1 \in 1..n /\ ~(j <= 1)
                BY <1>2, <3>2
            <4>2. posts[j] = [port |-> s.port, name |-> <<s.id, s.i, j - 1>>]
                BY <1>5, <1>6, <4>1
            <4>3. QED BY <2>4, <4>1, <4>2 DEF SnapPost
        <3>3. QED BY <3>1, <3>2
    <2>7. (r.k < lists[r.id][r.i]) <=> j <= n
        BY <1>2, <2>4 DEF n
    <2>8. HearsSnap(lists, r, posts[j], at[j])
        BY <2>2, <2>4, <2>5, <2>6, <2>7 DEF HearsSnap
    <2>9. QED BY <2>1, <2>8 DEF Step, r
<1>11. at \in [0..n + 1 -> Stages(lists)]
    BY <1>2, <1>7, <1>8
<1>12. at[0] = s /\ at[n + 1] = Whole(lists, s)
    BY <1>2, <1>9
<1> HIDE DEF at
<1>13. Leads(lists, s, posts, Whole(lists, s))
    BY <1>6, <1>10, <1>11, <1>12 DEF Leads
<1>14. QED BY <1>13 DEF n, posts, size, names

(* The snapshots of all machines, to one port, machine after machine.      *)
LEMMA PortLeads ==
    ASSUME NEW lists \in Lists, NEW s \in Stages(lists), s.port \in SnapPorts, s.i = 1, s.k = 0
    PROVE  Leads(lists, s, SnapPosts(s.port, lists[s.id], s.id),
                 Whole(lists, [s EXCEPT !.i = Len(lists[s.id])]))
<1> DEFINE vms == lists[s.id]
           L == Len(vms)
           Of(i) == <<[port |-> s.port, size |-> vms[i]]>>
                        \o [k \in 1..vms[i] |-> [port |-> s.port, name |-> <<s.id, i, k>>]]
           seqs == [i \in 1..L |-> Of(i)]
           Of2(i) == [s EXCEPT !.i = i]
<1>1. s.port # "none" /\ s.port # "vmListPort"
    BY DEF SnapPorts
<1>2. /\ s.id \in 1..Len(lists) /\ 1 \in 1..L /\ L \in Nat \ {0} /\ s.vm = s.id
      /\ \A i \in 1..L : vms[i] \in Nat
    BY <1>1, StageTypes, ListTypes, VMListViewAssumption DEF Place
<1>3. ASSUME NEW i \in 1..L
      PROVE  /\ Of2(i) \in Stages(lists) /\ Of2(i).i = i
             /\ Leads(lists, Of2(i), Of(i), Whole(lists, Of2(i)))
    <2> DEFINE r == Of2(i)
    <2>1. i \in Nat /\ s \in StageRecord(lists)
        BY <1>2, StageTypes
    <2>2. /\ r.port = s.port /\ r.id = s.id /\ r.i = i /\ r.k = 0 /\ r.vm = s.vm
          /\ r \in StageRecord(lists)
        BY <2>1 DEF StageRecord
    <2> HIDE DEF r
    <2>3. r \in Stages(lists)
        BY <1>1, <1>2, <2>2, ElementOfStages
    <2>4. Leads(lists, r, <<[port |-> r.port, size |-> lists[r.id][r.i]]>>
                     \o [k \in 1..lists[r.id][r.i] |-> [port |-> r.port, name |-> <<r.id, r.i, k>>]],
                Whole(lists, r))
        BY <2>2, <2>3, MachineLeads
    <2>5. QED BY <2>2, <2>3, <2>4 DEF r
<1>4. SnapPosts(s.port, vms, s.id) = FlattenSeq(seqs)
    BY DEF SnapPosts
<1>5. \A i \in 1..L : Of(i) \in Seq(Post)
    BY <1>3 DEF Leads
<1> HIDE DEF Of
<1>6. seqs \in Seq(Seq(Post)) /\ Len(seqs) = L
    BY <1>2, <1>5
<1>7. \A i \in 1..L : seqs[i] = Of(i)
    OBVIOUS
<1> HIDE DEF seqs
<1>8. PICK f : /\ FlattenSeq(seqs) = f[L]
               /\ \A i \in 1..L : f[i] = IF i = 1 THEN seqs[i] ELSE f[i - 1] \o seqs[i]
    <2> HIDE DEF L, Of
    <2>1. Len(seqs) > 0 /\ Len(seqs) = L
        BY <1>2, <1>6
    <2>2. \E f : /\ FlattenSeq(seqs) = f[Len(seqs)]
                 /\ \A i \in 1..Len(seqs) : f[i] = IF i = 1 THEN seqs[i] ELSE f[i - 1] \o seqs[i]
        BY <1>6, <2>1, Flattening
    <2>3. QED BY <2>1, <2>2
<1>9. \A i \in 1..L : f[i] = IF i = 1 THEN Of(i) ELSE f[i - 1] \o Of(i)
    BY <1>7, <1>8
<1> DEFINE Good == {n \in Nat : n \in 1..L => Leads(lists, s, f[n], Whole(lists, Of2(n)))}
<1>10. \A n \in Nat : n \in Good
    <2>1. 0 \in Good
        OBVIOUS
    <2>2. ASSUME NEW n \in Nat, n \in Good PROVE n + 1 \in Good
        <3>1. SUFFICES ASSUME n + 1 \in 1..L
                       PROVE  Leads(lists, s, f[n + 1], Whole(lists, Of2(n + 1)))
            OBVIOUS
        <3>2. CASE n = 0
            <4>1. Of2(1) = s
                BY StageTypes DEF StageRecord
            <4>2. f[1] = Of(1)
                BY <1>2, <1>9
            <4> HIDE DEF Of2, L
            <4>3. Leads(lists, Of2(1), Of(1), Whole(lists, Of2(1)))
                BY <1>2, <1>3
            <4>4. QED BY <3>2, <4>1, <4>2, <4>3
        <3>3. CASE n # 0
            <4>1. n \in 1..L /\ n < L /\ (n + 1) - 1 = n /\ n + 1 # 1
                BY <1>2, <3>1, <3>3
            <4>2. Whole(lists, Of2(n)) = Of2(n + 1)
                <5>1. /\ Of2(n).i = n /\ Of2(n).id = s.id
                      /\ [Of2(n) EXCEPT !.i = n + 1, !.k = 0] = Of2(n + 1)
                    BY StageTypes DEF StageRecord
                <5> HIDE DEF Of2
                <5>2. QED BY <4>1, <5>1 DEF Whole
            <4>3. f[n + 1] = f[n] \o Of(n + 1)
                BY <1>9, <3>1, <4>1
            <4>4. Leads(lists, s, f[n], Whole(lists, Of2(n)))
                BY <2>2, <4>1
            <4> HIDE DEF Of2, Good, L
            <4>5. Leads(lists, Of2(n + 1), Of(n + 1), Whole(lists, Of2(n + 1)))
                BY <1>3, <3>1
            <4>6. QED BY <4>2, <4>3, <4>4, <4>5, LeadsOn
        <3>4. QED BY <3>2, <3>3
    <2> HIDE DEF Good
    <2>3. QED BY <2>1, <2>2, NaturalsAreReached
<1>11. Leads(lists, s, f[L], Whole(lists, Of2(L)))
    <2>1. L \in Nat /\ L \in 1..L
        BY <1>2
    <2> HIDE DEF Of2, L
    <2>2. L \in Good
        BY <1>10, <2>1
    <2>3. QED BY <2>1, <2>2
<1>12. QED BY <1>4, <1>8, <1>11

(* All that a VM_LIST posts, and what it has the lists show.               *)
LEMMA VMListLeads ==
    ASSUME NEW lists \in Lists, NEW id \in 1..Len(lists), NEW up \in BOOLEAN, NEW vm \in 0..Len(lists),
           NEW snaps \in [SnapPorts -> 0..Len(lists)]
    PROVE  Leads(lists, Resting(up, vm, snaps), VMListPosts(lists[id], id),
                 IF lists[id] = << >> THEN Resting(up, vm, snaps)
                 ELSE Resting(up, id, [p \in SnapPorts |-> id]))
<1> DEFINE vms == lists[id]
           L == Len(vms)
           machines == [i \in 1..L |-> <<id, i>>]
           running == [port |-> "vmRunningListPort", data |-> machines]
           names == [i \in 1..L |-> [port |-> "vmListPort", name |-> <<id, i>>]]
           s0 == Resting(up, vm, snaps)
           half == [snaps EXCEPT !["snapNamesPort"] = id]
           s1 == [port |-> "vmListPort", id |-> id, i |-> 1, k |-> 0, up |-> up, vm |-> vm, snaps |-> snaps]
           s2 == [port |-> "snapNamesPort", id |-> id, i |-> 1, k |-> 0, up |-> up, vm |-> id, snaps |-> snaps]
           s3 == [port |-> "snapDescPort", id |-> id, i |-> 1, k |-> 0, up |-> up, vm |-> id, snaps |-> half]
           s4 == Resting(up, id, [p \in SnapPorts |-> id])
<1>1. /\ L \in Nat /\ vms \in Seq(0..MaxSnaps) /\ Len(lists) \in Nat
      /\ \A i \in 1..L : <<id, i>> \in MachineName /\ vms[i] \in Nat
    BY ListTypes, NameTypes, VMListViewAssumption
<1>2. machines \in Seq(MachineName)
    BY <1>1
<1>3. running \in Post
    BY <1>2, PostTypes
<1>4. s0 \in Stages(lists)
    BY RestingIsAStage
<1>5. VMListPosts(vms, id) = (<<running>> \o names) \o SnapPosts("snapNamesPort", vms, id)
                                 \o SnapPosts("snapDescPort", vms, id)
    <2>1. [i \in 1..L |-> [port |-> "vmListPort", name |-> machines[i]]] = names
        OBVIOUS
    <2>2. QED BY <2>1 DEF VMListPosts
<1>6. CASE L = 0
    <2>1. vms = << >>
        BY <1>1, <1>6
    <2>2. names = << >> /\ \A p \in SnapPorts : SnapPosts(p, vms, id) = << >>
        BY <1>6 DEF SnapPosts, FlattenSeq
    <2>3. Step(lists, s0, running, s0)
        BY <1>6 DEF Step, HearsRunningList, Resting, Names
    <2>4. Leads(lists, s0, <<running>>, s0)
        BY <1>3, <1>4, <2>3, LeadsByOne
    <2>5. VMListPosts(vms, id) = <<running>>
        <3>1. <<running>> \in Seq(Post)
            BY <1>3
        <3> HIDE DEF running, names
        <3>2. VMListPosts(vms, id) = ((<<running>> \o << >>) \o << >>) \o << >>
            BY <1>5, <2>2 DEF SnapPorts
        <3>3. QED BY <3>1, <3>2, ConcatEmptySeq
    <2>6. QED BY <2>1, <2>4, <2>5
<1>7. CASE L # 0
    <2>1. vms # << >> /\ 1 \in 1..L
        BY <1>1, <1>7
    <2>2. half \in [SnapPorts -> 0..Len(lists)] /\ id \in Nat /\ id \in 0..Len(lists)
        <3>1. id \in 0..Len(lists) /\ id \in Nat
            BY <1>1
        <3>2. QED BY <3>1
    <2>3. half = [snaps EXCEPT !["snapNamesPort"] = id]
        OBVIOUS
    <2> HIDE DEF half
    <2>4. /\ s0.port = "none" /\ s0.id = 0 /\ s0.i = 0 /\ s0.k = 0
          /\ s0.up = up /\ s0.vm = vm /\ s0.snaps = snaps
          /\ s0 \in StageRecord(lists)
        BY <1>4, StageTypes DEF Resting
    <2>5. s1 \in StageRecord(lists) /\ s2 \in StageRecord(lists) /\ s3 \in StageRecord(lists)
        BY <2>2 DEF StageRecord, SnapPorts
    <2>6. /\ s1.port = "vmListPort" /\ s1.id = id /\ s1.i = 1 /\ s1.k = 0
          /\ s1.up = up /\ s1.vm = vm /\ s1.snaps = snaps
          /\ s2.port = "snapNamesPort" /\ s2.id = id /\ s2.i = 1 /\ s2.k = 0
          /\ s2.up = up /\ s2.vm = id /\ s2.snaps = snaps
          /\ s3.port = "snapDescPort" /\ s3.id = id /\ s3.i = 1 /\ s3.k = 0
          /\ s3.up = up /\ s3.vm = id /\ s3.snaps = half
        OBVIOUS
    <2> HIDE DEF s0, s1, s2, s3
    <2>7. s1 = [s0 EXCEPT !.port = "vmListPort", !.id = id, !.i = 1]
        BY <2>4, <2>5, <2>6 DEF StageRecord
    <2>8. Step(lists, s0, running, s1)
        BY <1>7, <2>4, <2>7 DEF Step, HearsRunningList, Names
    <2>9. s1 \in Stages(lists) /\ s2 \in Stages(lists) /\ s3 \in Stages(lists)
        <3>1. 0 \in 0..lists[id][1]
            <4>1. lists[id][1] \in Nat
                BY <1>1, <2>1
            <4>2. QED BY <4>1
        <3>2. QED BY <2>1, <2>5, <2>6, <3>1, ElementOfStages DEF SnapPorts
    <2>10. Leads(lists, s0, <<running>>, s1)
        BY <1>3, <1>4, <2>9, <2>8, LeadsByOne
    <2>11. Leads(lists, s1, names, s2)
        <3>1. [s1 EXCEPT !.port = "snapNamesPort", !.i = 1, !.vm = s1.id] = s2
            BY <2>5, <2>6 DEF StageRecord
        <3>2. QED BY <2>9, <2>6, <3>1, NamesLead
    <2>12. Leads(lists, s2, SnapPosts("snapNamesPort", vms, id), s3)
        <3>1. Whole(lists, [s2 EXCEPT !.i = L]) = s3
            <4> DEFINE r == [s2 EXCEPT !.i = L]
            <4>1. /\ r.port = "snapNamesPort" /\ r.id = id /\ r.i = L
                  /\ r.up = up /\ r.vm = id /\ r.snaps = snaps
                  /\ r \in StageRecord(lists)
                BY <1>1, <2>5, <2>6 DEF StageRecord
            <4> HIDE DEF r
            <4>2. [r EXCEPT !.port = "snapDescPort", !.i = 1, !.k = 0, !.snaps = half] = s3
                BY <2>5, <2>6, <4>1 DEF StageRecord
            <4>3. Whole(lists, r) = s3
                BY <1>1, <2>3, <4>1, <4>2 DEF Whole
            <4>4. QED BY <4>3 DEF r
        <3>2. Leads(lists, s2, SnapPosts(s2.port, lists[s2.id], s2.id),
                    Whole(lists, [s2 EXCEPT !.i = Len(lists[s2.id])]))
            BY <2>9, <2>6, PortLeads DEF SnapPorts
        <3>3. QED BY <2>6, <3>1, <3>2
    <2>13. Leads(lists, s3, SnapPosts("snapDescPort", vms, id), s4)
        <3>1. Whole(lists, [s3 EXCEPT !.i = L]) = s4
            <4> DEFINE r == [s3 EXCEPT !.i = L]
            <4>1. r.port = "snapDescPort" /\ r.id = id /\ r.i = L /\ r.up = up /\ r.vm = id /\ r.snaps = half
                BY <1>1, <2>5, <2>6 DEF StageRecord
            <4>2. [half EXCEPT !["snapDescPort"] = id] = [p \in SnapPorts |-> id]
                BY <2>3 DEF SnapPorts
            <4> HIDE DEF r
            <4>3. Whole(lists, r) = s4
                BY <1>1, <4>1, <4>2 DEF Whole
            <4>4. QED BY <4>3 DEF r
        <3>2. Leads(lists, s3, SnapPosts(s3.port, lists[s3.id], s3.id),
                    Whole(lists, [s3 EXCEPT !.i = Len(lists[s3.id])]))
            BY <2>9, <2>6, PortLeads DEF SnapPorts
        <3>3. QED BY <2>6, <3>1, <3>2
    <2> HIDE DEF s4, names, running
    <2>14. Leads(lists, s0, VMListPosts(vms, id), s4)
        <3>1. Leads(lists, s0, <<running>> \o names, s2)
            BY <2>10, <2>11, LeadsOn
        <3>2. Leads(lists, s0, (<<running>> \o names) \o SnapPosts("snapNamesPort", vms, id), s3)
            BY <2>12, <3>1, LeadsOn
        <3>3. Leads(lists, s0, ((<<running>> \o names) \o SnapPosts("snapNamesPort", vms, id))
                                   \o SnapPosts("snapDescPort", vms, id), s4)
            BY <2>13, <3>2, LeadsOn
        <3>4. QED BY <1>5, <3>3
    <2>15. QED BY <2>1, <2>14 DEF s0, s4
<1>8. QED BY <1>6, <1>7

-----------------------------------------------------------------------------
(* The sequences the lists are made of grow at their end.                  *)

LEMMA NamesGrow ==
    ASSUME NEW id
    PROVE  /\ Names(id, 0) = << >>
           /\ \A n \in Nat : /\ Len(Names(id, n)) = n
                             /\ Append(Names(id, n), <<id, n + 1>>) = Names(id, n + 1)
<1>1. Names(id, 0) = << >>
    BY DEF Names
<1>2. ASSUME NEW n \in Nat
      PROVE  /\ Len(Names(id, n)) = n
             /\ Append(Names(id, n), <<id, n + 1>>) = Names(id, n + 1)
    BY DEF Names
<1>3. QED BY <1>1, <1>2

LEMMA SnapNamesGrow ==
    ASSUME NEW id, NEW i
    PROVE  /\ SnapNames(id, i, -1) = << >>
           /\ SnapNames(id, i, 0) = << >>
           /\ \A n \in Nat : /\ Len(SnapNames(id, i, n)) = n
                             /\ Append(SnapNames(id, i, n), <<id, i, n + 1>>) = SnapNames(id, i, n + 1)
<1>1. SnapNames(id, i, 0) = << >> /\ SnapNames(id, i, -1) = << >>
    BY DEF SnapNames
<1>2. ASSUME NEW n \in Nat
      PROVE  /\ Len(SnapNames(id, i, n)) = n
             /\ Append(SnapNames(id, i, n), <<id, i, n + 1>>) = SnapNames(id, i, n + 1)
    BY DEF SnapNames
<1>3. QED BY <1>1, <1>2

LEMMA SnapListsGrow ==
    ASSUME NEW lists, NEW id
    PROVE  /\ SnapLists(lists, id, 0) = << >>
           /\ \A n \in Nat :
                 /\ Len(SnapLists(lists, id, n)) = n
                 /\ Append(SnapLists(lists, id, n), SnapNames(id, n + 1, lists[id][n + 1]))
                        = SnapLists(lists, id, n + 1)
<1>1. SnapLists(lists, id, 0) = << >>
    BY DEF SnapLists
<1>2. ASSUME NEW n \in Nat
      PROVE  /\ Len(SnapLists(lists, id, n)) = n
             /\ Append(SnapLists(lists, id, n), SnapNames(id, n + 1, lists[id][n + 1]))
                    = SnapLists(lists, id, n + 1)
    BY DEF SnapLists
<1>3. QED BY <1>1, <1>2

(* What is displayed of a message is all there is of it.                   *)
LEMMA MessageLists ==
    ASSUME NEW lists \in Lists, lists = decoded, NEW id \in 1..Len(lists)
    PROVE  /\ Machines(id) = Names(id, Len(lists[id]))
           /\ Snaps(id) = SnapLists(lists, id, Len(lists[id]))
           /\ Len(lists[id]) \in Nat
<1>1. id # 0
    BY ListTypes
<1>2. QED BY <1>1, ListTypes DEF Machines, Snaps, Names, SnapLists, SnapNames

(* Their types.                                                            *)
LEMMA NameListTypes ==
    ASSUME NEW lists \in Lists, NEW id \in 1..Len(lists)
    PROVE  /\ \A n \in 0..Len(lists[id]) : Names(id, n) \in Seq(MachineName)
           /\ \A i \in 1..Len(lists[id]) : \A n \in -1..lists[id][i] :
                 SnapNames(id, i, n) \in Seq(SnapName)
           /\ \A n \in 0..Len(lists[id]) : SnapLists(lists, id, n) \in Seq(Seq(SnapName))
<1>1. Len(lists[id]) \in Nat /\ \A i \in 1..Len(lists[id]) : lists[id][i] \in Nat
    BY ListTypes, VMListViewAssumption
<1>2. ASSUME NEW n \in 0..Len(lists[id]) PROVE Names(id, n) \in Seq(MachineName)
    <2>1. n \in Nat /\ \A i \in 1..n : <<id, i>> \in MachineName
        BY <1>1, NameTypes
    <2>2. Names(id, n) \in [1..n -> MachineName]
        BY <2>1 DEF Names
    <2>3. QED BY <2>1, <2>2, FunctionsAreSequences
<1>3. ASSUME NEW i \in 1..Len(lists[id]), NEW n \in -1..lists[id][i]
      PROVE  SnapNames(id, i, n) \in Seq(SnapName)
    <2>1. CASE n = -1
        <3>1. SnapNames(id, i, n) = << >>
            BY <2>1, SnapNamesGrow
        <3>2. QED BY <3>1
    <2>2. CASE n # -1
        <3>1. n \in Nat /\ \A k \in 1..n : k \in 1..lists[id][i]
            BY <1>1, <2>2
        <3>2. \A k \in 1..n : <<id, i, k>> \in SnapName
            BY <3>1, NameTypes
        <3>3. SnapNames(id, i, n) \in [1..n -> SnapName]
            BY <3>2 DEF SnapNames
        <3>4. QED BY <3>1, <3>3, FunctionsAreSequences
    <2>3. QED BY <2>1, <2>2
<1>4. ASSUME NEW n \in 0..Len(lists[id]) PROVE SnapLists(lists, id, n) \in Seq(Seq(SnapName))
    <2>1. n \in Nat /\ \A i \in 1..n : SnapNames(id, i, lists[id][i]) \in Seq(SnapName)
        BY <1>1, <1>3
    <2>2. SnapLists(lists, id, n) \in [1..n -> Seq(SnapName)]
        BY <2>1 DEF SnapLists
    <2>3. QED BY <2>1, <2>2, FunctionsAreSequences
<1>5. QED BY <1>2, <1>3, <1>4

-----------------------------------------------------------------------------
(* The invariant of the lists.                                             *)

SnapTemp == [inner : Seq(SnapName), size : 0..MaxSnaps, outer : Seq(Seq(SnapName))]

(* What the listeners have published and half filled at a stage.           *)
Shows(s) ==
    /\ serverConnected = s.up
    /\ vmList = Machines(s.vm)
    /\ vmRunningList = IF s.vm = 0 THEN Null ELSE Machines(s.vm)
    /\ snapLists \in [SnapPorts -> Seq(Seq(SnapName))]
    /\ \A p \in SnapPorts : snapLists[p] = Snaps(s.snaps[p])

HalfFilled(s) ==
    /\ IF s.port = "vmListPort"
       THEN tempVMList = Names(s.id, s.i - 1) /\ tempVMrunningList = Machines(s.id)
       ELSE tempVMList = << >> /\ tempVMrunningList \in {Null, << >>}
    /\ tempSnap \in [SnapPorts -> SnapTemp]
    /\ \A p \in SnapPorts :
           IF s.port = p
           THEN /\ tempSnap[p].outer = SnapLists(decoded, s.id, s.i - 1)
                /\ tempSnap[p].inner = SnapNames(s.id, s.i, s.k - 1)
                /\ s.k > 0 => tempSnap[p].size = decoded[s.id][s.i]
           ELSE tempSnap[p].outer = << >> /\ tempSnap[p].inner = << >>

(* Where everything posted leads to.                                       *)
Due == Resting(link = "up", due.machines, [p \in SnapPorts |-> due.snaps])

Backend ==
    /\ decoded \in Lists
    /\ due \in [machines : 0..Len(decoded), snaps : 0..Len(decoded)]
    /\ link \in {"down", "late", "up"}
    /\ resets \in 0..MaxResets
    /\ due.machines \in {0, due.snaps}
    /\ due.snaps # 0 => decoded[due.snaps] # << >>

ViewInv ==
    /\ Backend
    /\ \E s \in Stages(decoded) : Shows(s) /\ HalfFilled(s) /\ Leads(decoded, s, inbox, Due)

LEMMA DueIsAStage ==
    ASSUME Backend
    PROVE  Due \in Stages(decoded)
    BY RestingIsAStage DEF Backend, Due

(* The invariant holds at first.                                           *)
LEMMA ViewInvInit == ViewInit => ViewInv
<1> SUFFICES ASSUME ViewInit PROVE ViewInv
    OBVIOUS
<1>1. decoded \in Lists /\ Len(decoded) = 0
    BY VMListViewAssumption DEF ViewInit, Lists
<1>2. Backend
    BY <1>1, VMListViewAssumption DEF ViewInit, Backend
<1>3. Due \in Stages(decoded)
    BY <1>2, DueIsAStage
<1>4. Leads(decoded, Due, inbox, Due)
    BY <1>3, LeadsNowhere DEF ViewInit
<1>5. Due.port = "none" /\ Due.up = FALSE /\ Due.vm = 0 /\ Due.snaps = [p \in SnapPorts |-> 0]
    BY DEF Due, Resting, ViewInit
<1> HIDE DEF Due
<1>6. Shows(Due)
    <2>1. snapLists \in [SnapPorts -> Seq(Seq(SnapName))]
        BY DEF ViewInit
    <2>2. Machines(0) = << >> /\ Snaps(0) = << >>
        BY DEF Machines, Snaps
    <2>3. QED BY <1>5, <2>1, <2>2 DEF Shows, ViewInit
<1>7. HalfFilled(Due)
    <2>1. tempSnap \in [SnapPorts -> SnapTemp]
        BY VMListViewAssumption DEF ViewInit, SnapTemp
    <2>2. QED BY <1>5, <2>1 DEF HalfFilled, ViewInit, SnapPorts
<1>8. QED BY <1>2, <1>3, <1>4, <1>6, <1>7 DEF ViewInv

-----------------------------------------------------------------------------
(* A listener takes the views along one step.                              *)

(* The port of a post tells which step it is.                              *)
LEMMA PortTells ==
    ASSUME NEW lists, NEW s, NEW t, NEW post, Step(lists, s, post, t)
    PROVE  /\ post.port = "connectionPort" => HearsConnection(s, post, t)
           /\ post.port = "vmRunningListPort" => HearsRunningList(lists, s, post, t)
           /\ post.port = "vmListPort" => HearsName(lists, s, post, t)
           /\ post.port \in SnapPorts => HearsSnap(lists, s, post, t) /\ s.port = post.port
<1>1. HearsConnection(s, post, t) => post.port = "connectionPort"
    BY DEF HearsConnection
<1>2. HearsRunningList(lists, s, post, t) => post.port = "vmRunningListPort"
    BY DEF HearsRunningList
<1>3. HearsName(lists, s, post, t) => post.port = "vmListPort"
    BY DEF HearsName
<1>4. HearsSnap(lists, s, post, t) => post.port \in SnapPorts /\ s.port = post.port
    BY DEF HearsSnap, SnapPost
<1>5. QED BY <1>1, <1>2, <1>3, <1>4 DEF Step, SnapPorts

(* The listeners, one lemma for each port: a step of Hear goes where the   *)
(* post leads, that is to what is displayed and half filled there.         *)
LEMMA HearsConnectionRight ==
    ASSUME Backend, NEW s \in Stages(decoded), Shows(s), HalfFilled(s),
           NEW t, Step(decoded, s, Head(inbox), t), HearConnection
    PROVE  Shows(t)' /\ HalfFilled(t)'
<1>1. HearsConnection(s, Head(inbox), t)
    BY PortTells DEF HearConnection, Take
<1>2. s \in StageRecord(decoded) /\ s.port = "none"
    BY <1>1, StageTypes DEF HearsConnection, Backend
<1>3. PICK status \in BOOLEAN :
          /\ Head(inbox) = [port |-> "connectionPort", status |-> status]
          /\ t = [s EXCEPT !.up = status, !.vm = IF s.up /\ ~status THEN 0 ELSE s.vm]
    BY <1>1 DEF HearsConnection
<1>4. /\ t.port = "none" /\ t.up = status /\ t.snaps = s.snaps
      /\ t.vm = IF s.up /\ ~status THEN 0 ELSE s.vm
    BY <1>2, <1>3 DEF StageRecord
<1>5. Head(inbox).status = status
    BY <1>3
<1>6. /\ decoded' = decoded /\ snapLists' = snapLists /\ tempVMList' = tempVMList
      /\ tempVMrunningList' = tempVMrunningList /\ tempSnap' = tempSnap
    BY DEF HearConnection, backend, temporary
<1>7. HalfFilled(t)'
    BY <1>2, <1>4, <1>6 DEF HalfFilled, SnapPorts
<1>8. Shows(t)'
    <2>1. serverConnected' = status
        BY <1>5 DEF HearConnection
    <2>2. \A p \in SnapPorts : snapLists'[p] = Snaps(t.snaps[p])'
        BY <1>4, <1>6 DEF Shows, Snaps
    <2>3. CASE s.up /\ ~status
        <3>1. vmList' = << >> /\ vmRunningList' = Null /\ t.vm = 0
            BY <1>4, <1>5, <2>3 DEF HearConnection, Shows
        <3>2. QED BY <1>4, <1>6, <2>1, <2>2, <3>1 DEF Shows, Machines
    <2>4. CASE ~(s.up /\ ~status)
        <3>1. vmList' = vmList /\ vmRunningList' = vmRunningList /\ t.vm = s.vm
            BY <1>4, <1>5, <2>4 DEF HearConnection, Shows
        <3>2. QED BY <1>4, <1>6, <2>1, <2>2, <3>1 DEF Shows, Machines
    <2>5. QED BY <2>3, <2>4
<1>9. QED BY <1>7, <1>8

LEMMA HearsRunningListRight ==
    ASSUME Backend, NEW s \in Stages(decoded), Shows(s), HalfFilled(s),
           NEW t, Step(decoded, s, Head(inbox), t), HearRunningList
    PROVE  Shows(t)' /\ HalfFilled(t)'
<1>1. HearsRunningList(decoded, s, Head(inbox), t)
    BY PortTells DEF HearRunningList, Take
<1>2. s \in StageRecord(decoded) /\ s.port = "none"
    BY <1>1, StageTypes DEF HearsRunningList, Backend
<1>3. PICK id \in 1..Len(decoded) :
          /\ Head(inbox) = [port |-> "vmRunningListPort", data |-> Names(id, Len(decoded[id]))]
          /\ t = IF Len(decoded[id]) = 0 THEN s
                 ELSE [s EXCEPT !.port = "vmListPort", !.id = id, !.i = 1]
    BY <1>1 DEF HearsRunningList
<1>4. /\ t.up = s.up /\ t.vm = s.vm /\ t.snaps = s.snaps
      /\ IF Len(decoded[id]) = 0 THEN t.port = "none"
         ELSE t.port = "vmListPort" /\ t.id = id /\ t.i = 1
    BY <1>2, <1>3 DEF StageRecord
<1>5. tempVMrunningList' = Names(id, Len(decoded[id]))
    BY <1>3 DEF HearRunningList
<1>6. /\ decoded' = decoded /\ serverConnected' = serverConnected /\ snapLists' = snapLists
      /\ vmList' = vmList /\ vmRunningList' = vmRunningList
      /\ tempVMList' = tempVMList /\ tempSnap' = tempSnap
    BY DEF HearRunningList, backend, published
<1>7. Shows(t)'
    BY <1>4, <1>6 DEF Shows, Machines, Snaps
<1>8. HalfFilled(t)'
    <2>1. tempVMList = << >> /\ tempSnap \in [SnapPorts -> SnapTemp]
        BY <1>2 DEF HalfFilled
    <2>2. \A p \in SnapPorts : /\ t.port # p
                               /\ tempSnap'[p].outer = << >> /\ tempSnap'[p].inner = << >>
        BY <1>2, <1>4, <1>6 DEF HalfFilled, SnapPorts
    <2>3. CASE Len(decoded[id]) = 0
        <3>1. tempVMrunningList' = << >>
            BY <1>5, <2>3, NamesGrow
        <3>2. QED BY <1>4, <1>6, <2>1, <2>2, <2>3, <3>1 DEF HalfFilled
    <2>4. CASE Len(decoded[id]) # 0
        <3>1. Machines(id)' = Names(id, Len(decoded[id]))
            BY <1>6, MessageLists DEF Backend, Machines
        <3>2. 1 - 1 = 0 /\ Names(id, 0) = << >>
            BY NamesGrow
        <3>3. QED BY <1>4, <1>5, <1>6, <2>1, <2>2, <2>4, <3>1, <3>2 DEF HalfFilled
    <2>5. QED BY <2>3, <2>4
<1>9. QED BY <1>7, <1>8

LEMMA HearsNameRight ==
    ASSUME Backend, NEW s \in Stages(decoded), Shows(s), HalfFilled(s),
           NEW t, Step(decoded, s, Head(inbox), t), HearName
    PROVE  Shows(t)' /\ HalfFilled(t)'
<1>1. HearsName(decoded, s, Head(inbox), t)
    BY PortTells DEF HearName, Take
<1>2. /\ s \in StageRecord(decoded) /\ s.port = "vmListPort"
      /\ s.id \in 1..Len(decoded) /\ s.i \in 1..Len(decoded[s.id]) /\ Len(decoded[s.id]) \in Nat
      /\ s.i \in Nat /\ s.i - 1 \in Nat /\ s.k = 0
    BY <1>1, StageTypes DEF HearsName, Backend, Place
<1> DEFINE L == Len(decoded[s.id])
           names == Append(tempVMList, Head(inbox).name)
<1>3. /\ Machines(s.id) = Names(s.id, L) /\ Len(Names(s.id, L)) = L
    BY <1>2, NamesGrow, MessageLists DEF Backend
<1>4. names = Names(s.id, s.i) /\ Len(names) = s.i
    <2>1. tempVMList = Names(s.id, s.i - 1) /\ Head(inbox).name = <<s.id, s.i>>
        BY <1>1, <1>2 DEF HalfFilled, HearsName
    <2>2. (s.i - 1) + 1 = s.i
        BY <1>2
    <2>3. Append(Names(s.id, s.i - 1), <<s.id, s.i>>) = Names(s.id, s.i)
        BY <1>2, <2>2, NamesGrow
    <2>4. Len(Names(s.id, s.i)) = s.i
        BY <1>2, NamesGrow
    <2>5. names = Names(s.id, s.i)
        BY <2>1, <2>3
    <2> HIDE DEF names
    <2>6. QED BY <2>4, <2>5
<1>5. tempVMrunningList = Names(s.id, L) /\ tempVMrunningList # Null
    <2>1. tempVMrunningList = Names(s.id, L)
        BY <1>2, <1>3 DEF HalfFilled
    <2>2. Names(s.id, L) \in Seq(MachineName)
        BY <1>2, NameListTypes DEF Backend
    <2>3. QED BY <2>1, <2>2, NullAssumption
<1>6. /\ decoded' = decoded /\ serverConnected' = serverConnected /\ snapLists' = snapLists
      /\ tempSnap' = tempSnap
    BY DEF HearName, backend
<1> HIDE DEF names
<1>7. IF s.i = L
      THEN /\ vmList' = names /\ vmRunningList' = tempVMrunningList
           /\ tempVMList' = << >> /\ tempVMrunningList' = << >>
      ELSE /\ tempVMList' = names
           /\ vmList' = vmList /\ vmRunningList' = vmRunningList /\ tempVMrunningList' = tempVMrunningList
    <2>1. IF tempVMrunningList # Null /\ Len(names) = Len(tempVMrunningList)
          THEN /\ vmList' = names /\ vmRunningList' = tempVMrunningList
               /\ tempVMList' = << >> /\ tempVMrunningList' = << >>
          ELSE /\ tempVMList' = names
               /\ vmList' = vmList /\ vmRunningList' = vmRunningList /\ tempVMrunningList' = tempVMrunningList
        BY DEF HearName, names
    <2>2. (tempVMrunningList # Null /\ Len(names) = Len(tempVMrunningList)) <=> s.i = L
        BY <1>3, <1>4, <1>5
    <2>3. QED BY <2>1, <2>2
<1>8. Machines(s.id)' = Machines(s.id) /\ \A id : Snaps(id)' = Snaps(id) /\ Machines(id)' = Machines(id)
    BY <1>6 DEF Machines, Snaps
<1>9. /\ tempSnap \in [SnapPorts -> SnapTemp]
      /\ \A p \in SnapPorts : tempSnap[p].outer = << >> /\ tempSnap[p].inner = << >>
    BY <1>2 DEF HalfFilled, SnapPorts
<1>10. CASE s.i < L
    <2>1. t = [s EXCEPT !.i = s.i + 1]
        BY <1>1, <1>10 DEF HearsName
    <2>2. t.port = "vmListPort" /\ t.id = s.id /\ t.i = s.i + 1
          /\ t.up = s.up /\ t.vm = s.vm /\ t.snaps = s.snaps
        BY <1>2, <2>1 DEF StageRecord
    <2>3. Shows(t)'
        BY <1>6, <1>7, <1>8, <1>10, <1>2, <2>2 DEF Shows
    <2>4. t.i - 1 = s.i
        BY <1>2, <2>2
    <2>5. tempVMList' = Names(t.id, t.i - 1) /\ tempVMrunningList' = Machines(t.id)'
        BY <1>2, <1>3, <1>4, <1>5, <1>7, <1>8, <1>10, <2>2, <2>4
    <2>6. HalfFilled(t)'
        BY <1>6, <1>9, <2>2, <2>5 DEF HalfFilled, SnapPorts
    <2>7. QED BY <2>3, <2>6
<1>11. CASE ~(s.i < L)
    <2>1. t = [s EXCEPT !.port = "snapNamesPort", !.i = 1, !.vm = s.id] /\ s.i = L
        BY <1>1, <1>2, <1>11 DEF HearsName
    <2>2. /\ t.port = "snapNamesPort" /\ t.id = s.id /\ t.i = 1 /\ t.k = 0
          /\ t.up = s.up /\ t.vm = s.id /\ t.snaps = s.snaps
        BY <1>2, <2>1 DEF StageRecord
    <2>3. vmList' = Machines(s.id) /\ vmRunningList' = Machines(s.id) /\ s.id # 0
        BY <1>2, <1>3, <1>4, <1>5, <1>7, <2>1, StageTypes DEF Backend
    <2>4. Shows(t)'
        BY <1>6, <1>8, <2>2, <2>3 DEF Shows
    <2>5. tempVMList' = << >> /\ tempVMrunningList' = << >>
        BY <1>7, <2>1
    <2>6. SnapLists(decoded, s.id, 0) = << >> /\ SnapNames(s.id, 1, -1) = << >>
        BY SnapListsGrow, SnapNamesGrow
    <2>7. 1 - 1 = 0 /\ 0 - 1 = -1
        OBVIOUS
    <2>8. HalfFilled(t)'
        <3>1. SnapLists(decoded, t.id, t.i - 1) = << >> /\ SnapNames(t.id, t.i, t.k - 1) = << >>
            BY <2>2, <2>6, <2>7
        <3>2. ~(t.k > 0) /\ t.port # "vmListPort"
            BY <2>2
        <3>3. \A p \in SnapPorts : tempSnap'[p].outer = << >> /\ tempSnap'[p].inner = << >>
            BY <1>6, <1>9
        <3>4. QED BY <1>6, <1>9, <2>5, <3>1, <3>2, <3>3 DEF HalfFilled
    <2>9. QED BY <2>4, <2>8
<1>12. QED BY <1>10, <1>11

(* What is gathered: the next snapshot, or the list of a machine without   *)
(* snapshots; and the list of a machine when it is whole.                  *)
LEMMA GatherNumber ==
    ASSUME NEW temp, NEW p, NEW n
    PROVE  Gather(temp, [port |-> p, size |-> n])
               = [inner |-> << >>, size |-> n,
                  outer |-> IF n = 0 THEN Append(temp.outer, << >>) ELSE temp.outer]
<1>1. "size" \in DOMAIN [port |-> p, size |-> n]
    OBVIOUS
<1>2. Len(<< >>) = 0
    OBVIOUS
<1>3. QED BY <1>1, <1>2 DEF Gather

(* What a listener of snapshots has gathered after its next element.       *)
LEMMA GatherSnapshot ==
    ASSUME NEW temp, NEW p, NEW name, NEW inner, inner = Append(temp.inner, name)
    PROVE  Gather(temp, [port |-> p, name |-> name])
               = [inner |-> IF Len(inner) = temp.size THEN << >> ELSE inner,
                  size |-> temp.size,
                  outer |-> IF Len(inner) = temp.size THEN Append(temp.outer, inner) ELSE temp.outer]
<1>1. "size" \notin DOMAIN [port |-> p, name |-> name]
    OBVIOUS
<1>2. QED BY <1>1 DEF Gather

LEMMA Gathered ==
    ASSUME Backend, NEW s \in Stages(decoded), Shows(s), HalfFilled(s),
           NEW p \in SnapPorts, s.port = p, Head(inbox) = SnapPost(decoded, s),
           NEW n, n = decoded[s.id][s.i]
    PROVE  Gather(tempSnap[p], Head(inbox))
               = IF s.k < n
                 THEN [inner |-> SnapNames(s.id, s.i, s.k), size |-> n,
                       outer |-> SnapLists(decoded, s.id, s.i - 1)]
                 ELSE [inner |-> << >>, size |-> n, outer |-> SnapLists(decoded, s.id, s.i)]
<1> DEFINE temp == tempSnap[p]
<1>1. /\ temp.outer = SnapLists(decoded, s.id, s.i - 1)
      /\ temp.inner = SnapNames(s.id, s.i, s.k - 1)
      /\ s.k > 0 => temp.size = n
    BY DEF HalfFilled
<1>2. s.port # "none" /\ s.port # "vmListPort"
    BY DEF SnapPorts
<1>3. /\ s.id \in 1..Len(decoded) /\ s.i \in Nat /\ s.i - 1 \in Nat /\ (s.i - 1) + 1 = s.i
      /\ n \in Nat /\ s.k \in 0..n
    <2>1. /\ s.id \in 1..Len(decoded) /\ Len(decoded[s.id]) \in Nat
          /\ s.i \in 1..Len(decoded[s.id]) /\ n \in Nat
        BY <1>2, StageTypes DEF Backend
    <2>2. s.k \in 0..n
        BY StageTypes DEF Place, Backend
    <2>3. QED BY <2>1, <2>2
<1>4. Append(SnapLists(decoded, s.id, s.i - 1), SnapNames(s.id, s.i, n)) = SnapLists(decoded, s.id, s.i)
    <2>1. \A lists : Append(SnapLists(lists, s.id, s.i - 1),
                             SnapNames(s.id, (s.i - 1) + 1, lists[s.id][(s.i - 1) + 1]))
                        = SnapLists(lists, s.id, (s.i - 1) + 1)
        BY <1>3, SnapListsGrow
    <2>2. QED BY <1>3, <2>1
<1> HIDE DEF temp
<1>5. CASE s.k = 0
    <2>1. Head(inbox) = [port |-> p, size |-> n]
        BY <1>5 DEF SnapPost
    <2>2. Gather(temp, Head(inbox))
              = [inner |-> << >>, size |-> n,
                 outer |-> IF n = 0 THEN Append(temp.outer, << >>) ELSE temp.outer]
        <3>1. Gather(temp, [port |-> p, size |-> n])
                  = [inner |-> << >>, size |-> n,
                     outer |-> IF n = 0 THEN Append(temp.outer, << >>) ELSE temp.outer]
            BY GatherNumber
        <3>2. QED BY <2>1, <3>1
    <2>3. SnapNames(s.id, s.i, 0) = << >>
        BY SnapNamesGrow
    <2>4. CASE n = 0
        BY <1>1, <1>4, <1>5, <2>2, <2>3, <2>4 DEF temp
    <2>5. CASE n # 0
        BY <1>1, <1>3, <1>5, <2>2, <2>3, <2>5 DEF temp
    <2>6. QED BY <2>4, <2>5
<1>6. CASE s.k # 0
    <2> DEFINE inner == SnapNames(s.id, s.i, s.k)
    <2>1. s.k - 1 \in Nat /\ (s.k - 1) + 1 = s.k /\ s.k > 0 /\ s.k \in Nat
        BY <1>3, <1>6
    <2>2. Append(SnapNames(s.id, s.i, s.k - 1), <<s.id, s.i, (s.k - 1) + 1>>)
              = SnapNames(s.id, s.i, (s.k - 1) + 1)
        BY <2>1, SnapNamesGrow
    <2>3. inner = Append(temp.inner, <<s.id, s.i, s.k>>)
        BY <1>1, <2>1, <2>2
    <2>4. Len(inner) = s.k
        BY <2>1, SnapNamesGrow
    <2>5. Head(inbox) = [port |-> p, name |-> <<s.id, s.i, s.k>>]
        BY <1>6 DEF SnapPost
    <2> HIDE DEF inner
    <2>6. Gather(temp, Head(inbox))
              = [inner |-> IF s.k = n THEN << >> ELSE inner, size |-> n,
                 outer |-> IF s.k = n THEN Append(temp.outer, inner) ELSE temp.outer]
        <3>1. Gather(temp, [port |-> p, name |-> <<s.id, s.i, s.k>>])
                  = [inner |-> IF Len(inner) = temp.size THEN << >> ELSE inner,
                     size |-> temp.size,
                     outer |-> IF Len(inner) = temp.size THEN Append(temp.outer, inner) ELSE temp.outer]
            BY <2>3, GatherSnapshot
        <3>2. temp.size = n
            BY <1>1, <2>1
        <3>3. QED BY <2>4, <2>5, <3>1, <3>2
    <2>7. CASE s.k < n
        <3>1. s.k # n
            BY <1>3, <2>7
        <3>2. QED BY <1>1, <2>6, <2>7, <3>1 DEF temp, inner
    <2>8. CASE ~(s.k < n)
        <3>1. s.k = n
            BY <1>3, <2>8
        <3>2. QED BY <1>1, <1>4, <2>6, <2>8, <3>1 DEF temp, inner
    <2>9. QED BY <2>7, <2>8
<1>7. QED BY <1>5, <1>6

(* What the listener of p publishes: the lists of all machines on display, *)
(* when the last of them is whole, and nothing else.                       *)
LEMMA HeardSnap ==
    ASSUME Backend, NEW s \in Stages(decoded), Shows(s), HalfFilled(s),
           NEW t, Step(decoded, s, Head(inbox), t), NEW p \in SnapPorts, HearSnap(p),
           NEW n, n = decoded[s.id][s.i], NEW L, L = Len(decoded[s.id])
    PROVE  /\ s.port = p /\ HearsSnap(decoded, s, Head(inbox), t)
           /\ s.id \in 1..Len(decoded) /\ s.i \in 1..L /\ L \in Nat /\ n \in Nat /\ s.k \in 0..n
           /\ s.vm = s.id
           /\ UNCHANGED <<backend, serverConnected, vmList, vmRunningList, tempVMList, tempVMrunningList>>
           /\ IF s.k < n
              THEN /\ snapLists' = snapLists
                   /\ tempSnap' = [tempSnap EXCEPT ![p] =
                          [inner |-> SnapNames(s.id, s.i, s.k), size |-> n,
                           outer |-> SnapLists(decoded, s.id, s.i - 1)]]
              ELSE IF s.i < L
              THEN /\ snapLists' = snapLists
                   /\ tempSnap' = [tempSnap EXCEPT ![p] =
                          [inner |-> << >>, size |-> n, outer |-> SnapLists(decoded, s.id, s.i)]]
              ELSE /\ snapLists' = [snapLists EXCEPT ![p] = Snaps(s.id)]
                   /\ tempSnap' = [tempSnap EXCEPT ![p] = [inner |-> << >>, size |-> n, outer |-> << >>]]
<1>1. HearsSnap(decoded, s, Head(inbox), t) /\ s.port = p
    BY PortTells DEF HearSnap, Take
<1>2. s.port # "none" /\ s.port # "vmListPort"
    BY <1>1 DEF SnapPorts
<1>3. /\ s.id \in 1..Len(decoded) /\ L \in Nat /\ s.i \in 1..L /\ n \in Nat
      /\ s.vm = s.id /\ s.k \in 0..n
    BY <1>1, <1>2, StageTypes DEF Backend, Place
<1> DEFINE temp == Gather(tempSnap[p], Head(inbox))
<1>4. temp = IF s.k < n
             THEN [inner |-> SnapNames(s.id, s.i, s.k), size |-> n,
                   outer |-> SnapLists(decoded, s.id, s.i - 1)]
             ELSE [inner |-> << >>, size |-> n, outer |-> SnapLists(decoded, s.id, s.i)]
    BY <1>1, Gathered DEF HearsSnap
<1>5. IF Len(temp.outer) = Len(vmList)
      THEN /\ snapLists' = [snapLists EXCEPT ![p] = temp.outer]
           /\ tempSnap' = [tempSnap EXCEPT ![p] = [temp EXCEPT !.outer = << >>]]
      ELSE /\ tempSnap' = [tempSnap EXCEPT ![p] = temp]
           /\ snapLists' = snapLists
    BY DEF HearSnap
<1> HIDE DEF temp
<1>6. Len(vmList) = L
    <2>1. vmList = Names(s.id, L)
        BY <1>3, MessageLists DEF Backend, Shows
    <2>2. QED BY <1>3, <2>1, NamesGrow
<1>7. UNCHANGED <<backend, serverConnected, vmList, vmRunningList, tempVMList, tempVMrunningList>>
    BY DEF HearSnap
<1>8. /\ s.i - 1 \in Nat /\ s.i \in Nat
      /\ Len(SnapLists(decoded, s.id, s.i - 1)) = s.i - 1
      /\ Len(SnapLists(decoded, s.id, s.i)) = s.i
    <2>1. s.i - 1 \in Nat /\ s.i \in Nat
        BY <1>3
    <2>2. \A i \in Nat : Len(SnapLists(decoded, s.id, i)) = i
        BY SnapListsGrow
    <2>3. QED BY <2>1, <2>2
<1>9. CASE s.k < n
    <2>1. Len(temp.outer) # Len(vmList)
        BY <1>3, <1>4, <1>6, <1>8, <1>9
    <2>2. QED BY <1>1, <1>3, <1>4, <1>5, <1>7, <1>9, <2>1
<1>10. CASE ~(s.k < n) /\ s.i < L
    <2>1. Len(temp.outer) # Len(vmList)
        BY <1>3, <1>4, <1>6, <1>8, <1>10
    <2>2. QED BY <1>1, <1>3, <1>4, <1>5, <1>7, <1>10, <2>1
<1>11. CASE ~(s.k < n) /\ ~(s.i < L)
    <2>1. Len(temp.outer) = Len(vmList) /\ s.i = L
        BY <1>3, <1>4, <1>6, <1>8, <1>11
    <2>2. temp.outer = Snaps(s.id)
        BY <1>3, <1>4, <1>11, <2>1, MessageLists DEF Backend
    <2>3. [temp EXCEPT !.outer = << >>] = [inner |-> << >>, size |-> n, outer |-> << >>]
        BY <1>4, <1>11
    <2>4. QED BY <1>1, <1>3, <1>5, <1>7, <1>11, <2>1, <2>2, <2>3
<1>12. QED BY <1>9, <1>10, <1>11

LEMMA SnapTempTypes ==
    ASSUME Backend, NEW s \in Stages(decoded), s.port \in SnapPorts, NEW n, n = decoded[s.id][s.i]
    PROVE  /\ s.k < n => [inner |-> SnapNames(s.id, s.i, s.k), size |-> n,
                          outer |-> SnapLists(decoded, s.id, s.i - 1)] \in SnapTemp
           /\ [inner |-> << >>, size |-> n, outer |-> SnapLists(decoded, s.id, s.i)] \in SnapTemp
           /\ [inner |-> << >>, size |-> n, outer |-> << >>] \in SnapTemp
           /\ Snaps(s.id) \in Seq(Seq(SnapName))
<1>1. /\ s.id \in 1..Len(decoded) /\ Len(decoded[s.id]) \in Nat /\ s.i \in 1..Len(decoded[s.id])
      /\ n \in 0..MaxSnaps /\ n \in Nat /\ s.k \in 0..n
    BY StageTypes, ListTypes, VMListViewAssumption DEF Backend, Place, SnapPorts
<1>2. s.i \in 0..Len(decoded[s.id]) /\ s.i - 1 \in 0..Len(decoded[s.id]) /\ s.k \in -1..n
      /\ Len(decoded[s.id]) \in 0..Len(decoded[s.id])
    BY <1>1
<1>3. /\ SnapNames(s.id, s.i, s.k) \in Seq(SnapName)
      /\ SnapLists(decoded, s.id, s.i) \in Seq(Seq(SnapName))
      /\ SnapLists(decoded, s.id, s.i - 1) \in Seq(Seq(SnapName))
      /\ SnapLists(decoded, s.id, Len(decoded[s.id])) \in Seq(Seq(SnapName))
    BY <1>1, <1>2, NameListTypes DEF Backend
<1>4. << >> \in Seq(SnapName) /\ << >> \in Seq(Seq(SnapName))
    OBVIOUS
<1>5. Snaps(s.id) = SnapLists(decoded, s.id, Len(decoded[s.id]))
    BY <1>1, MessageLists DEF Backend
<1>6. QED BY <1>1, <1>3, <1>4, <1>5 DEF SnapTemp

(* The listener of a port of snapshots.                                    *)
LEMMA HearsSnapRight ==
    ASSUME Backend, NEW s \in Stages(decoded), Shows(s), HalfFilled(s),
           NEW t, Step(decoded, s, Head(inbox), t), NEW p \in SnapPorts, HearSnap(p)
    PROVE  Shows(t)' /\ HalfFilled(t)'
<1> DEFINE n == decoded[s.id][s.i]
           L == Len(decoded[s.id])
<1>1. n = decoded[s.id][s.i] /\ L = Len(decoded[s.id])
    OBVIOUS
<1> HIDE DEF n, L
<1>2. /\ s.port = p /\ HearsSnap(decoded, s, Head(inbox), t)
      /\ s.id \in 1..Len(decoded) /\ s.i \in 1..L /\ L \in Nat /\ n \in Nat /\ s.k \in 0..n
      /\ s.vm = s.id
      /\ UNCHANGED <<backend, serverConnected, vmList, vmRunningList, tempVMList, tempVMrunningList>>
    BY <1>1, HeardSnap
<1>3. IF s.k < n
      THEN /\ snapLists' = snapLists
           /\ tempSnap' = [tempSnap EXCEPT ![p] =
                  [inner |-> SnapNames(s.id, s.i, s.k), size |-> n,
                   outer |-> SnapLists(decoded, s.id, s.i - 1)]]
      ELSE IF s.i < L
      THEN /\ snapLists' = snapLists
           /\ tempSnap' = [tempSnap EXCEPT ![p] =
                  [inner |-> << >>, size |-> n, outer |-> SnapLists(decoded, s.id, s.i)]]
      ELSE /\ snapLists' = [snapLists EXCEPT ![p] = Snaps(s.id)]
           /\ tempSnap' = [tempSnap EXCEPT ![p] = [inner |-> << >>, size |-> n, outer |-> << >>]]
    BY <1>1, HeardSnap
<1>4. /\ s.k < n => [inner |-> SnapNames(s.id, s.i, s.k), size |-> n,
                     outer |-> SnapLists(decoded, s.id, s.i - 1)] \in SnapTemp
      /\ [inner |-> << >>, size |-> n, outer |-> SnapLists(decoded, s.id, s.i)] \in SnapTemp
      /\ [inner |-> << >>, size |-> n, outer |-> << >>] \in SnapTemp
      /\ Snaps(s.id) \in Seq(Seq(SnapName))
    BY <1>1, <1>2, SnapTempTypes
<1>5. /\ tempVMList = << >> /\ tempVMrunningList \in {Null, << >>}
      /\ tempSnap \in [SnapPorts -> SnapTemp]
      /\ \A q \in SnapPorts : q # p => tempSnap[q].outer = << >> /\ tempSnap[q].inner = << >>
    BY <1>2 DEF HalfFilled, SnapPorts
<1>6. /\ serverConnected = s.up /\ vmList = Machines(s.vm)
      /\ vmRunningList = IF s.vm = 0 THEN Null ELSE Machines(s.vm)
      /\ snapLists \in [SnapPorts -> Seq(Seq(SnapName))]
      /\ \A q \in SnapPorts : snapLists[q] = Snaps(s.snaps[q])
    BY DEF Shows
<1>7. /\ decoded' = decoded /\ serverConnected' = serverConnected /\ vmList' = vmList
      /\ vmRunningList' = vmRunningList /\ tempVMList' = tempVMList /\ tempVMrunningList' = tempVMrunningList
    BY <1>2 DEF backend
<1>8. \A id : Snaps(id)' = Snaps(id) /\ Machines(id)' = Machines(id)
    BY <1>7 DEF Machines, Snaps
<1>9. s \in StageRecord(decoded) /\ s.k \in Nat /\ s.i \in Nat /\ s.snaps \in [SnapPorts -> 0..Len(decoded)]
    BY <1>2, StageTypes DEF Backend, StageRecord
<1>10. t = IF s.k < n THEN [s EXCEPT !.k = s.k + 1] ELSE Whole(decoded, s)
    BY <1>1, <1>2 DEF HearsSnap
<1>11. CASE s.k < n
    <2>1. /\ t.port = p /\ t.id = s.id /\ t.i = s.i /\ t.k = s.k + 1
          /\ t.up = s.up /\ t.vm = s.vm /\ t.snaps = s.snaps
        BY <1>2, <1>9, <1>10, <1>11 DEF StageRecord
    <2>2. Shows(t)'
        BY <1>3, <1>6, <1>7, <1>8, <1>11, <2>1 DEF Shows
    <2>3. t.k - 1 = s.k
        BY <1>9, <2>1
    <2>4. HalfFilled(t)'
        <3>1. /\ tempSnap' \in [SnapPorts -> SnapTemp]
              /\ tempSnap'[p] = [inner |-> SnapNames(s.id, s.i, s.k), size |-> n,
                                 outer |-> SnapLists(decoded, s.id, s.i - 1)]
              /\ \A q \in SnapPorts : q # p => tempSnap'[q] = tempSnap[q]
            BY <1>3, <1>4, <1>5, <1>11
        <3>2. /\ tempSnap'[p].outer = SnapLists(decoded, t.id, t.i - 1)
              /\ tempSnap'[p].inner = SnapNames(t.id, t.i, t.k - 1)
              /\ tempSnap'[p].size = decoded[t.id][t.i]
            BY <1>1, <2>1, <2>3, <3>1
        <3>3. t.port # "vmListPort"
            BY <2>1 DEF SnapPorts
        <3>4. QED BY <1>5, <1>7, <2>1, <3>1, <3>2, <3>3 DEF HalfFilled
    <2>5. QED BY <2>2, <2>4
<1>12. CASE ~(s.k < n) /\ s.i < L
    <2>1. /\ t.port = p /\ t.id = s.id /\ t.i = s.i + 1 /\ t.k = 0
          /\ t.up = s.up /\ t.vm = s.vm /\ t.snaps = s.snaps
        <3>1. t = [s EXCEPT !.i = s.i + 1, !.k = 0]
            BY <1>1, <1>10, <1>12 DEF Whole
        <3>2. QED BY <1>2, <1>9, <3>1 DEF StageRecord
    <2>2. Shows(t)'
        BY <1>3, <1>6, <1>7, <1>8, <1>12, <2>1 DEF Shows
    <2>3. t.i - 1 = s.i /\ t.k - 1 = -1
        BY <1>9, <2>1
    <2>4. HalfFilled(t)'
        <3>1. /\ tempSnap' \in [SnapPorts -> SnapTemp]
              /\ tempSnap'[p] = [inner |-> << >>, size |-> n, outer |-> SnapLists(decoded, s.id, s.i)]
              /\ \A q \in SnapPorts : q # p => tempSnap'[q] = tempSnap[q]
            BY <1>3, <1>4, <1>5, <1>12
        <3>2. SnapNames(t.id, t.i, -1) = << >>
            BY SnapNamesGrow
        <3>3. /\ tempSnap'[p].outer = SnapLists(decoded, t.id, t.i - 1)
              /\ tempSnap'[p].inner = SnapNames(t.id, t.i, t.k - 1)
            BY <2>1, <2>3, <3>1, <3>2
        <3>4. t.port # "vmListPort" /\ ~(t.k > 0)
            BY <2>1 DEF SnapPorts
        <3>5. QED BY <1>5, <1>7, <2>1, <3>1, <3>3, <3>4 DEF HalfFilled
    <2>5. QED BY <2>2, <2>4
<1>13. CASE ~(s.k < n) /\ ~(s.i < L)
    <2> DEFINE snaps == [s.snaps EXCEPT ![p] = s.id]
    <2>1. /\ tempSnap' \in [SnapPorts -> SnapTemp]
          /\ \A q \in SnapPorts : tempSnap'[q].outer = << >> /\ tempSnap'[q].inner = << >>
        <3>1. /\ tempSnap' \in [SnapPorts -> SnapTemp]
              /\ tempSnap'[p] = [inner |-> << >>, size |-> n, outer |-> << >>]
              /\ \A q \in SnapPorts : q # p => tempSnap'[q] = tempSnap[q]
            BY <1>3, <1>4, <1>5, <1>13
        <3>2. QED BY <1>5, <3>1
    <2>2. /\ snapLists' \in [SnapPorts -> Seq(Seq(SnapName))]
          /\ \A q \in SnapPorts : snapLists'[q] = Snaps(snaps[q])
        BY <1>3, <1>4, <1>6, <1>9, <1>13
    <2>3. /\ t.up = s.up /\ t.vm = s.vm /\ t.snaps = snaps /\ t.port # "vmListPort"
          /\ t.port \in SnapPorts => t.i = 1 /\ t.k = 0
        <3> HIDE DEF snaps
        <3>1. CASE p = "snapNamesPort"
            <4>1. t = [s EXCEPT !.port = "snapDescPort", !.i = 1, !.k = 0, !.snaps = snaps]
                BY <1>1, <1>2, <1>10, <1>13, <3>1 DEF Whole, snaps
            <4>2. QED BY <1>9, <4>1 DEF StageRecord
        <3>2. CASE p = "snapDescPort"
            <4>1. t = Resting(s.up, s.vm, snaps)
                BY <1>1, <1>2, <1>10, <1>13, <3>2 DEF Whole, snaps
            <4>2. QED BY <4>1 DEF Resting, SnapPorts
        <3>3. QED BY <3>1, <3>2 DEF SnapPorts
    <2> HIDE DEF snaps
    <2>4. Shows(t)'
        BY <1>6, <1>7, <1>8, <2>2, <2>3 DEF Shows
    <2>5. HalfFilled(t)'
        <3>1. SnapLists(decoded, t.id, 0) = << >> /\ SnapNames(t.id, t.i, -1) = << >>
            BY SnapListsGrow, SnapNamesGrow
        <3>2. 1 - 1 = 0 /\ 0 - 1 = -1 /\ ~(0 > 0)
            OBVIOUS
        <3>3. QED BY <1>5, <1>7, <2>1, <2>3, <3>1, <3>2 DEF HalfFilled
    <2>6. QED BY <2>4, <2>5
<1>14. QED BY <1>11, <1>12, <1>13

-----------------------------------------------------------------------------
(* Every step keeps the invariant of the lists.                            *)

(* What is posted does not change what has been heard.                     *)
LEMMA StandsStill ==
    ASSUME decoded' = decoded, UNCHANGED <<published, temporary>>, NEW s, Shows(s), HalfFilled(s)
    PROVE  Shows(s)' /\ HalfFilled(s)'
<1>1. \A id : Machines(id)' = Machines(id) /\ Snaps(id)' = Snaps(id)
    BY DEF Machines, Snaps
<1>2. /\ serverConnected' = serverConnected /\ vmList' = vmList /\ vmRunningList' = vmRunningList
      /\ snapLists' = snapLists /\ tempVMList' = tempVMList
      /\ tempVMrunningList' = tempVMrunningList /\ tempSnap' = tempSnap
    BY DEF published, temporary
<1>3. Shows(s)'
    BY <1>1, <1>2 DEF Shows
<1>4. HalfFilled(s)'
    BY <1>1, <1>2 DEF HalfFilled
<1>5. QED BY <1>3, <1>4

(* One more connection is made or lost.                                    *)
LEMMA LeadsToConnection ==
    ASSUME ViewInv, Backend', decoded' = decoded,
           UNCHANGED <<published, temporary>>, NEW status \in BOOLEAN,
           inbox' = Append(inbox, [port |-> "connectionPort", status |-> status]),
           link' = "up" <=> status, due.snaps = due'.snaps,
           due'.machines = IF link = "up" /\ ~status THEN 0 ELSE due.machines
    PROVE  ViewInv'
<1> DEFINE post == [port |-> "connectionPort", status |-> status]
<1>1. PICK s \in Stages(decoded) : Shows(s) /\ HalfFilled(s) /\ Leads(decoded, s, inbox, Due)
    BY DEF ViewInv
<1>2. Due \in Stages(decoded) /\ Due' \in Stages(decoded)
    BY DueIsAStage, RestingIsAStage DEF ViewInv, Backend, Due
<1>3. /\ Due.port = "none" /\ Due.up = (link = "up")
      /\ Due' = [Due EXCEPT !.up = status, !.vm = IF Due.up /\ ~status THEN 0 ELSE Due.vm]
    <2> DEFINE d == Due
               e == Due'
               vm == IF d.up /\ ~status THEN 0 ELSE d.vm
    <2>1. /\ d.port = "none" /\ d.id = 0 /\ d.i = 0 /\ d.k = 0 /\ d.up = (link = "up") /\ d.vm = due.machines
          /\ d.snaps = [p \in SnapPorts |-> due.snaps]
          /\ e.port = "none" /\ e.id = 0 /\ e.i = 0 /\ e.k = 0 /\ e.up = (link' = "up") /\ e.vm = due'.machines
          /\ e.snaps = [p \in SnapPorts |-> due'.snaps]
        BY DEF Due, Resting
    <2>2. d \in StageRecord(decoded) /\ e \in StageRecord(decoded)
        BY <1>2, StageTypes DEF ViewInv, Backend
    <2> HIDE DEF d, e
    <2>3. e.up = status /\ e.vm = vm
        BY <2>1
    <2>4. e.port = d.port /\ e.id = d.id /\ e.i = d.i /\ e.k = d.k /\ e.snaps = d.snaps
        BY <2>1
    <2> HIDE DEF vm
    <2>5. e = [d EXCEPT !.up = e.up, !.vm = e.vm]
        BY <2>2, <2>4 DEF StageRecord
    <2>6. e = [d EXCEPT !.up = status, !.vm = vm]
        BY <2>3, <2>5
    <2>7. QED BY <2>1, <2>6 DEF d, e, vm
<1>4. post \in Post
    BY PostTypes
<1>5. HearsConnection(Due, post, Due')
    BY <1>3 DEF HearsConnection
<1> HIDE DEF post
<1>6. Leads(decoded, Due, <<post>>, Due')
    BY <1>2, <1>4, <1>5, LeadsByOne DEF Step
<1>7. inbox' = inbox \o <<post>>
    BY <1>1 DEF Leads, post
<1>8. Leads(decoded, s, inbox', Due')
    BY <1>1, <1>6, <1>7, LeadsOn
<1>9. Shows(s)' /\ HalfFilled(s)'
    BY <1>1, StandsStill
<1>10. QED BY <1>1, <1>8, <1>9 DEF ViewInv

(* A VM_LIST is posted behind all that is still to be heard.               *)
LEMMA ViewInvVMListCallback ==
    ASSUME ViewInv, NEW vms \in VMLists, VMListCallback(vms)
    PROVE  ViewInv'
<1> DEFINE id == Len(decoded) + 1
           more == Append(decoded, vms)
<1>1. PICK s \in Stages(decoded) : Shows(s) /\ HalfFilled(s) /\ Leads(decoded, s, inbox, Due)
    BY DEF ViewInv
<1>2. /\ decoded \in Lists /\ due \in [machines : 0..Len(decoded), snaps : 0..Len(decoded)]
      /\ due.machines \in {0, due.snaps} /\ (due.snaps # 0 => decoded[due.snaps] # << >>)
      /\ link \in {"down", "late", "up"} /\ resets \in 0..MaxResets
    BY DEF ViewInv, Backend
<1>3. /\ more \in Lists /\ Len(more) = id /\ id \in Nat /\ id \in 1..Len(more) /\ more[id] = vms
      /\ Len(decoded) <= Len(more) /\ \A i \in 1..Len(decoded) : more[i] = decoded[i]
    BY <1>2, VMListViewAssumption DEF VMListCallback, Lists
<1>4. /\ decoded' = more
      /\ inbox' = inbox \o VMListPosts(vms, id)
      /\ link' \in {"down", "late", "up"} /\ (link' = "up") = (link = "up")
      /\ due' = IF vms = << >> THEN due ELSE [machines |-> id, snaps |-> id]
      /\ UNCHANGED <<resets, published, temporary>>
    BY <1>2 DEF VMListCallback
<1> HIDE DEF more, id
<1>5. Len(decoded) \in Nat /\ due.machines \in 0..Len(more) /\ due.snaps \in 0..Len(more)
    BY <1>2, <1>3, ListTypes
<1>6. Backend'
    <2>1. CASE vms = << >>
        BY <1>2, <1>3, <1>4, <1>5, <2>1 DEF Backend
    <2>2. CASE vms # << >>
        BY <1>2, <1>3, <1>4, <1>5, <2>2 DEF Backend
    <2>3. QED BY <2>1, <2>2
<1>7. Leads(more, s, inbox, Due) /\ s \in Stages(more)
    BY <1>1, <1>2, <1>3, LeadsStill, StagesGrow
<1>8. Leads(more, Due, VMListPosts(vms, id), Due')
    <2> DEFINE up == link = "up"
               snaps == [p \in SnapPorts |-> due.snaps]
    <2>1. up \in BOOLEAN /\ snaps \in [SnapPorts -> 0..Len(more)]
        BY <1>5
    <2>2. Due = Resting(up, due.machines, snaps)
        BY DEF Due
    <2>3. Due' = IF vms = << >> THEN Due ELSE Resting(up, id, [p \in SnapPorts |-> id])
        <3>1. CASE vms = << >>
            BY <1>4, <3>1 DEF Due
        <3>2. CASE vms # << >>
            BY <1>4, <3>2 DEF Due
        <3>3. QED BY <3>1, <3>2
    <2> HIDE DEF up, snaps
    <2>4. Leads(more, Resting(up, due.machines, snaps), VMListPosts(more[id], id),
                IF more[id] = << >> THEN Resting(up, due.machines, snaps)
                ELSE Resting(up, id, [p \in SnapPorts |-> id]))
        BY <1>3, <1>5, <2>1, VMListLeads
    <2>5. QED BY <1>3, <2>2, <2>3, <2>4
<1>9. Leads(more, s, inbox', Due')
    BY <1>4, <1>7, <1>8, LeadsOn
<1>10. \A i \in 0..Len(decoded) : Machines(i)' = Machines(i) /\ Snaps(i)' = Snaps(i)
    <2>1. ASSUME NEW i \in 0..Len(decoded) PROVE i # 0 => i \in 1..Len(decoded)
        BY <1>5
    <2>2. \A i \in 0..Len(decoded) : i # 0 => decoded'[i] = decoded[i]
        BY <1>3, <1>4, <2>1
    <2>3. QED BY <2>2 DEF Machines, Snaps
<1>11. /\ s.vm \in 0..Len(decoded) /\ s.snaps \in [SnapPorts -> 0..Len(decoded)]
       /\ s.port # "none" => s.id \in 1..Len(decoded) /\ s.id \in 0..Len(decoded)
    BY <1>2, StageTypes DEF StageRecord
<1>12. Shows(s)'
    BY <1>1, <1>4, <1>10, <1>11 DEF Shows, published
<1>13. HalfFilled(s)'
    <2>1. s.port = "vmListPort" => Machines(s.id)' = Machines(s.id)
        BY <1>10, <1>11
    <2>2. \A i : s.port # "none" => SnapLists(more, s.id, i) = SnapLists(decoded, s.id, i)
                                    /\ more[s.id] = decoded[s.id]
        BY <1>3, <1>11 DEF SnapLists
    <2>3. QED BY <1>1, <1>4, <2>1, <2>2 DEF HalfFilled, temporary, SnapPorts
<1>14. QED BY <1>4, <1>6, <1>7, <1>9, <1>12, <1>13 DEF ViewInv

(* Hearing a post is the first step of those that lead to what is due.     *)
LEMMA ViewInvHear ==
    ASSUME ViewInv, Hear
    PROVE  ViewInv'
<1>1. PICK s \in Stages(decoded) : Shows(s) /\ HalfFilled(s) /\ Leads(decoded, s, inbox, Due)
    BY DEF ViewInv
<1>2. inbox # << >> /\ inbox' = Tail(inbox) /\ UNCHANGED backend
    BY DEF Hear, HearConnection, HearRunningList, HearName, HearSnap, Take
<1>3. PICK t \in Stages(decoded) : Step(decoded, s, Head(inbox), t) /\ Leads(decoded, t, Tail(inbox), Due)
    BY <1>1, <1>2, LeadsByTheFirst
<1>4. Shows(t)' /\ HalfFilled(t)'
    BY <1>1, <1>3, HearsConnectionRight, HearsRunningListRight, HearsNameRight, HearsSnapRight
       DEF Hear, ViewInv
<1>5. Backend' /\ Due' = Due /\ decoded' = decoded
    BY <1>2 DEF ViewInv, Backend, Due, backend
<1>6. QED BY <1>2, <1>3, <1>4, <1>5 DEF ViewInv

LEMMA ViewInvNext == ViewInv /\ [ViewNext]_viewVars => ViewInv'
<1> SUFFICES ASSUME ViewInv, [ViewNext]_viewVars PROVE ViewInv'
    OBVIOUS
<1>1. ASSUME NEW vms \in VMLists, VMListCallback(vms) PROVE ViewInv'
    BY <1>1, ViewInvVMListCallback
<1>2. CASE Connected
    <2>1. /\ decoded' = decoded /\ due' = due /\ link' = "up" /\ UNCHANGED <<published, temporary>>
          /\ inbox' = Append(inbox, [port |-> "connectionPort", status |-> TRUE])
          /\ link # "up"
        BY <1>2 DEF Connected, ConnectionCallback
    <2>2. resets' \in 0..MaxResets
        BY <1>2, VMListViewAssumption DEF Connected, ConnectionCallback, ViewInv, Backend
    <2>3. Backend'
        BY <2>1, <2>2 DEF ViewInv, Backend
    <2>4. QED BY <2>1, <2>3, LeadsToConnection
<1>3. CASE Reset
    <2>1. /\ decoded' = decoded /\ UNCHANGED <<published, temporary>>
          /\ inbox' = Append(inbox, [port |-> "connectionPort", status |-> FALSE])
          /\ IF link = "up" THEN link' = "late" /\ due' = [due EXCEPT !.machines = 0]
             ELSE link' = link /\ due' = due
        BY <1>3 DEF Reset, ConnectionCallback
    <2>2. resets' \in 0..MaxResets
        BY <1>3, VMListViewAssumption DEF Reset, ConnectionCallback, ViewInv, Backend
    <2>3. /\ due \in [machines : 0..Len(decoded), snaps : 0..Len(decoded)]
          /\ due'.snaps = due.snaps /\ due'.machines = IF link = "up" THEN 0 ELSE due.machines
          /\ link' \in {"down", "late", "up"} /\ link' # "up"
        BY <2>1 DEF ViewInv, Backend
    <2>4. due' \in [machines : 0..Len(decoded), snaps : 0..Len(decoded)]
        <3>1. 0 \in 0..Len(decoded)
            BY ListTypes DEF ViewInv, Backend
        <3>2. QED BY <2>1, <2>3, <3>1
    <2>5. Backend'
        BY <2>1, <2>2, <2>3, <2>4 DEF ViewInv, Backend
    <2>6. QED BY <2>1, <2>3, <2>5, LeadsToConnection
<1>4. CASE Hear
    BY <1>4, ViewInvHear
<1>5. CASE UNCHANGED viewVars
    <2>1. PICK s \in Stages(decoded) : Shows(s) /\ HalfFilled(s) /\ Leads(decoded, s, inbox, Due)
        BY DEF ViewInv
    <2>2. UNCHANGED <<backend, inbox, published, temporary>> /\ decoded' = decoded
        BY <1>5 DEF viewVars, backend
    <2>3. Shows(s)' /\ HalfFilled(s)'
        BY <2>1, <2>2, StandsStill
    <2>4. Backend' /\ Due' = Due
        BY <2>2 DEF ViewInv, Backend, Due, backend
    <2>5. QED BY <2>1, <2>2, <2>3, <2>4 DEF ViewInv
<1>6. QED BY <1>1, <1>2, <1>3, <1>4, <1>5 DEF ViewNext

-----------------------------------------------------------------------------
(* What the invariant of the lists says of them.                           *)

(* What is published has the bounds of a VM_LIST, and Null is no list.     *)
LEMMA PublishedTypes ==
    ASSUME decoded \in Lists, NEW id \in 0..Len(decoded)
    PROVE  /\ Machines(id) \in Seq(MachineName) /\ Machines(id) # Null
           /\ Len(Machines(id)) \in 0..MaxVMs
           /\ Snaps(id) \in Seq(Seq(SnapName)) /\ Len(Snaps(id)) = Len(Machines(id))
           /\ \A i \in 1..Len(Snaps(id)) : Len(Snaps(id)[i]) \in 0..MaxSnaps
<1>1. CASE id = 0
    <2>1. Machines(id) = << >> /\ Snaps(id) = << >>
        BY <1>1 DEF Machines, Snaps
    <2>2. << >> \in Seq(MachineName) /\ << >> \in Seq(Seq(SnapName)) /\ Len(<< >>) = 0 /\ 1..0 = {}
        OBVIOUS
    <2>3. 0 \in 0..MaxVMs
        BY VMListViewAssumption
    <2>4. QED BY <2>1, <2>2, <2>3, NullAssumption
<1>2. CASE id # 0
    <2> DEFINE L == Len(decoded[id])
    <2>1. id \in 1..Len(decoded) /\ L \in 0..MaxVMs /\ L \in Nat /\ L \in 0..L
        BY <1>2, ListTypes, VMListViewAssumption
    <2>2. Machines(id) = Names(id, L) /\ Snaps(id) = SnapLists(decoded, id, L)
        BY <2>1, MessageLists
    <2>3. Len(Names(id, L)) = L /\ Len(SnapLists(decoded, id, L)) = L
        BY <2>1, NamesGrow, SnapListsGrow
    <2>4. Names(id, L) \in Seq(MachineName) /\ SnapLists(decoded, id, L) \in Seq(Seq(SnapName))
        BY <2>1, NameListTypes
    <2>5. ASSUME NEW i \in 1..L PROVE Len(SnapLists(decoded, id, L)[i]) \in 0..MaxSnaps
        <3>1. decoded[id][i] \in 0..MaxSnaps /\ decoded[id][i] \in Nat
            BY <2>1, ListTypes, VMListViewAssumption
        <3>2. SnapLists(decoded, id, L)[i] = SnapNames(id, i, decoded[id][i])
            BY DEF SnapLists
        <3>3. Len(SnapNames(id, i, decoded[id][i])) = decoded[id][i]
            BY <3>1, SnapNamesGrow
        <3>4. QED BY <3>1, <3>2, <3>3
    <2> HIDE DEF L
    <2>6. QED BY <2>1, <2>2, <2>3, <2>4, <2>5, NullAssumption
<1>3. QED BY <1>1, <1>2

(* Nothing that is half filled outgrows what it is announced to be.        *)
LEMMA HalfFilledTypes ==
    ASSUME Backend, NEW s \in Stages(decoded), HalfFilled(s)
    PROVE  /\ tempVMList \in Seq(MachineName) /\ Len(tempVMList) < MaxVMs
           /\ tempVMrunningList \in Seq(MachineName) \cup {Null}
           /\ tempSnap \in [SnapPorts -> SnapTemp]
           /\ \A p \in SnapPorts : /\ Len(tempSnap[p].inner) <= tempSnap[p].size
                                   /\ Len(tempSnap[p].outer) < MaxVMs
<1>1. /\ MaxVMs \in Nat /\ 0 < MaxVMs /\ Len(<< >>) = 0
      /\ << >> \in Seq(MachineName)
    BY VMListViewAssumption
<1>2. ASSUME s.port # "none"
      PROVE  /\ s.id \in 1..Len(decoded) /\ s.id \in 0..Len(decoded)
             /\ s.i \in 1..Len(decoded[s.id]) /\ s.i - 1 \in 0..Len(decoded[s.id])
             /\ s.i - 1 \in Nat /\ s.i - 1 < MaxVMs
             /\ decoded[s.id][s.i] \in Nat
    <2>1. /\ s.id \in 1..Len(decoded) /\ s.i \in 1..Len(decoded[s.id])
          /\ Len(decoded) \in Nat /\ decoded[s.id][s.i] \in Nat
        BY <1>2, StageTypes DEF Backend
    <2>2. Len(decoded[s.id]) \in 0..MaxVMs
        BY <2>1, ListTypes DEF Backend
    <2>3. QED BY <1>1, <2>1, <2>2
<1>3. /\ tempVMList \in Seq(MachineName) /\ Len(tempVMList) < MaxVMs
      /\ tempVMrunningList \in Seq(MachineName) \cup {Null}
    <2>1. CASE s.port = "vmListPort"
        <3>1. tempVMList = Names(s.id, s.i - 1) /\ tempVMrunningList = Machines(s.id)
            BY <2>1 DEF HalfFilled
        <3>2. Machines(s.id) \in Seq(MachineName)
            BY <1>2, <2>1, PublishedTypes DEF Backend
        <3>3. Names(s.id, s.i - 1) \in Seq(MachineName) /\ Len(Names(s.id, s.i - 1)) = s.i - 1
            BY <1>2, <2>1, NameListTypes, NamesGrow DEF Backend
        <3>4. QED BY <1>2, <2>1, <3>1, <3>2, <3>3
    <2>2. CASE s.port # "vmListPort"
        BY <1>1, <2>2 DEF HalfFilled
    <2>3. QED BY <2>1, <2>2
<1>4. ASSUME NEW p \in SnapPorts
      PROVE  Len(tempSnap[p].inner) <= tempSnap[p].size /\ Len(tempSnap[p].outer) < MaxVMs
    <2>1. tempSnap[p].size \in Nat
        BY VMListViewAssumption DEF HalfFilled, SnapTemp
    <2>2. CASE s.port = p
        <3>1. /\ tempSnap[p].outer = SnapLists(decoded, s.id, s.i - 1)
              /\ tempSnap[p].inner = SnapNames(s.id, s.i, s.k - 1)
              /\ s.k > 0 => tempSnap[p].size = decoded[s.id][s.i]
            BY <2>2 DEF HalfFilled
        <3>2. s.port # "none" /\ s.k \in 0..decoded[s.id][s.i]
            BY <2>2, StageTypes DEF Place, SnapPorts, Backend
        <3>3. \A i \in Nat : Len(SnapLists(decoded, s.id, i)) = i
            BY SnapListsGrow
        <3>4. CASE s.k = 0
            <4>1. SnapNames(s.id, s.i, s.k - 1) = << >>
                BY <3>4, SnapNamesGrow
            <4>2. QED BY <1>1, <1>2, <2>1, <3>1, <3>2, <3>3, <4>1
        <3>5. CASE s.k # 0
            <4>1. s.k - 1 \in Nat /\ s.k > 0 /\ s.k - 1 <= decoded[s.id][s.i]
                BY <1>2, <3>2, <3>5
            <4>2. Len(SnapNames(s.id, s.i, s.k - 1)) = s.k - 1
                BY <4>1, SnapNamesGrow
            <4>3. QED BY <1>2, <3>1, <3>2, <3>3, <4>1, <4>2
        <3>6. QED BY <3>4, <3>5
    <2>3. CASE s.port # p
        <3>1. tempSnap[p].outer = << >> /\ tempSnap[p].inner = << >>
            BY <2>3 DEF HalfFilled
        <3>2. QED BY <1>1, <2>1, <3>1
    <2>4. QED BY <2>2, <2>3
<1>5. tempSnap \in [SnapPorts -> SnapTemp]
    BY DEF HalfFilled
<1>6. QED BY <1>3, <1>4, <1>5

LEMMA ViewInvTypeOK == ViewInv => TypeOK
<1> SUFFICES ASSUME ViewInv PROVE TypeOK
    OBVIOUS
<1>1. PICK s \in Stages(decoded) : Shows(s) /\ HalfFilled(s) /\ Leads(decoded, s, inbox, Due)
    BY DEF ViewInv
<1>2. Backend
    BY DEF ViewInv
<1>3. inbox \in Seq(Post)
    BY <1>1 DEF Leads
<1>4. s.vm \in 0..Len(decoded) /\ s.up \in BOOLEAN
    BY <1>2, StageTypes DEF Backend, StageRecord
<1>5. /\ serverConnected \in BOOLEAN
      /\ vmList \in Seq(MachineName) /\ Len(vmList) <= MaxVMs
      /\ vmRunningList \in Seq(MachineName) \cup {Null}
      /\ snapLists \in [SnapPorts -> Seq(Seq(SnapName))]
    <2>1. Machines(s.vm) \in Seq(MachineName) /\ Len(Machines(s.vm)) \in 0..MaxVMs
        BY <1>2, <1>4, PublishedTypes DEF Backend
    <2>2. QED BY <1>1, <1>4, <2>1, VMListViewAssumption DEF Shows
<1>6. /\ tempVMList \in Seq(MachineName) /\ Len(tempVMList) < MaxVMs
      /\ tempVMrunningList \in Seq(MachineName) \cup {Null}
      /\ tempSnap \in [SnapPorts -> SnapTemp]
      /\ \A p \in SnapPorts : /\ Len(tempSnap[p].inner) <= tempSnap[p].size
                              /\ Len(tempSnap[p].outer) < MaxVMs
    BY <1>1, <1>2, HalfFilledTypes
<1>7. QED BY <1>2, <1>3, <1>5, <1>6 DEF TypeOK, Backend, Lists, SnapTemp

LEMMA ViewInvStates == ViewInv => StatesAreOfTheirMachines
<1> SUFFICES ASSUME ViewInv PROVE StatesAreOfTheirMachines
    OBVIOUS
<1>1. PICK s \in Stages(decoded) : Shows(s)
    BY DEF ViewInv
<1>2. s.vm \in 0..Len(decoded) /\ Len(decoded) \in Nat
    BY StageTypes DEF ViewInv, Backend, StageRecord
<1>3. CASE s.vm = 0
    <2>1. vmRunningList = Null /\ vmList = << >>
        BY <1>1, <1>3 DEF Shows, Machines
    <2>2. QED BY <2>1 DEF StatesAreOfTheirMachines
<1>4. CASE s.vm # 0
    <2>1. vmRunningList = Machines(s.vm) /\ vmList = Machines(s.vm) /\ s.vm \in 1..Len(decoded)
        BY <1>1, <1>2, <1>4 DEF Shows
    <2>2. Machines(s.vm) # Null
        BY <1>2, PublishedTypes DEF ViewInv, Backend
    <2>3. QED BY <2>1, <2>2 DEF StatesAreOfTheirMachines
<1>5. QED BY <1>3, <1>4

LEMMA ViewInvSettled ==
    ASSUME ViewInv, inbox = << >>
    PROVE  Shows(Due) /\ HalfFilled(Due)
<1>1. PICK s \in Stages(decoded) : Shows(s) /\ HalfFilled(s) /\ Leads(decoded, s, << >>, Due)
    BY DEF ViewInv
<1>2. s = Due
    BY <1>1, NothingLeadsNowhere
<1> HIDE DEF Due
<1>3. QED BY <1>1, <1>2

LEMMA ViewInvDue == ViewInv => SettledViewIsDue
<1> SUFFICES ASSUME ViewInv, inbox = << >>
             PROVE  /\ vmList = Machines(due.machines)
                    /\ \A p \in SnapPorts : snapLists[p] = Snaps(due.snaps)
                    /\ tempVMList = << >>
                    /\ \A p \in SnapPorts : tempSnap[p].inner = << >> /\ tempSnap[p].outer = << >>
    BY DEF SettledViewIsDue
<1>1. /\ Due.port = "none" /\ Due.vm = due.machines
      /\ \A p \in SnapPorts : Due.snaps[p] = due.snaps
    BY DEF Due, Resting
<1> DEFINE d == Due
<1>2. Shows(d) /\ HalfFilled(d)
    BY ViewInvSettled
<1> HIDE DEF d
<1>3. QED BY <1>1, <1>2 DEF Shows, HalfFilled, SnapPorts, d

(* The lists of snapshots change only when their last element is heard.    *)
LEMMA ViewInvSnaps ==
    ASSUME ViewInv, [ViewNext]_viewVars, NEW p \in SnapPorts, snapLists'[p] # snapLists[p]
    PROVE  \E id \in 1..Len(decoded) : vmList = Machines(id) /\ snapLists'[p] = Snaps(id)
<1>1. PICK s \in Stages(decoded) : Shows(s) /\ HalfFilled(s) /\ Leads(decoded, s, inbox, Due)
    BY DEF ViewInv
<1>2. PICK q \in SnapPorts : HearSnap(q)
    <2>1. UNCHANGED viewVars => snapLists' = snapLists
        BY DEF viewVars, published
    <2>2. Connected \/ Reset \/ (\E vms \in VMLists : VMListCallback(vms)) => snapLists' = snapLists
        BY DEF Connected, Reset, ConnectionCallback, VMListCallback, published
    <2>3. HearConnection \/ HearRunningList \/ HearName => snapLists' = snapLists
        BY DEF HearConnection, HearRunningList, HearName, published
    <2>4. QED BY <2>1, <2>2, <2>3 DEF ViewNext, Hear
<1>3. inbox # << >>
    BY <1>2 DEF HearSnap, Take
<1>4. PICK t : Step(decoded, s, Head(inbox), t)
    BY <1>1, <1>3, LeadsByTheFirst
<1>5. /\ s.id \in 1..Len(decoded) /\ s.vm = s.id
      /\ snapLists' = snapLists \/ snapLists' = [snapLists EXCEPT ![q] = Snaps(s.id)]
    <2> DEFINE n == decoded[s.id][s.i]
               L == Len(decoded[s.id])
    <2>1. n = decoded[s.id][s.i] /\ L = Len(decoded[s.id])
        OBVIOUS
    <2> HIDE DEF n, L
    <2>2. QED BY <1>1, <1>2, <1>4, <2>1, HeardSnap DEF ViewInv
<1>6. vmList = Machines(s.id) /\ snapLists \in [SnapPorts -> Seq(Seq(SnapName))]
    BY <1>1, <1>5 DEF Shows
<1>7. snapLists'[p] = Snaps(s.id)
    BY <1>5, <1>6
<1>8. QED BY <1>5, <1>6, <1>7

-----------------------------------------------------------------------------
(* The invariant of the screen: as it has been built, the choice has been  *)
(* checked and what goes on to be indexed is there; or the build threw.    *)

ChoiceTypes ==
    /\ open \in BOOLEAN
    /\ chosenValue \in Chosen
    /\ selectedRow \in Selected
    /\ saved \in Chosen \X Selected
    /\ dirty \in BOOLEAN
    /\ intact \in BOOLEAN

Throws == StatusThrows(chosenValue) \/ TableThrows(chosenValue)

BuiltFromChecked ==
    open /\ ~dirty => IF intact THEN choice = Checked /\ ~Throws
                      ELSE CheckThrows \/ (choice = Checked /\ Throws)

ScreenInv == ViewInv /\ ChoiceTypes /\ BuiltFromChecked

(* The screen keeps its choice within what was there when it was built.    *)
LEMMA ScreenInvInit == Init => ScreenInv
<1> SUFFICES ASSUME Init PROVE ScreenInv
    OBVIOUS
<1>1. Null \in Chosen /\ Null \in Selected
    BY DEF Chosen, Selected
<1>2. ChoiceTypes /\ BuiltFromChecked
    BY <1>1 DEF Init, ChoiceTypes, BuiltFromChecked
<1>3. QED BY <1>2, ViewInvInit DEF Init, ScreenInv

(* The shapes of the published lists.                                      *)
LEMMA ScreenLists ==
    ASSUME ViewInv
    PROVE  /\ Len(vmList) \in 0..MaxVMs
           /\ \A p \in SnapPorts :
                 /\ Len(snapLists[p]) \in Nat
                 /\ \A i \in 1..Len(snapLists[p]) : Len(snapLists[p][i]) \in 0..MaxSnaps
<1>1. PICK s \in Stages(decoded) : Shows(s)
    BY DEF ViewInv
<1>2. s.vm \in 0..Len(decoded) /\ s.snaps \in [SnapPorts -> 0..Len(decoded)] /\ decoded \in Lists
    BY StageTypes DEF ViewInv, Backend, StageRecord
<1>3. Len(vmList) \in 0..MaxVMs
    BY <1>1, <1>2, PublishedTypes DEF Shows
<1>4. ASSUME NEW p \in SnapPorts
      PROVE  /\ Len(snapLists[p]) \in Nat
             /\ \A i \in 1..Len(snapLists[p]) : Len(snapLists[p][i]) \in 0..MaxSnaps
    <2>1. PICK id \in 0..Len(decoded) : snapLists[p] = Snaps(id)
        BY <1>1, <1>2 DEF Shows
    <2>2. /\ Len(Snaps(id)) \in 0..MaxVMs
          /\ \A i \in 1..Len(Snaps(id)) : Len(Snaps(id)[i]) \in 0..MaxSnaps
        BY <1>2, PublishedTypes
    <2>3. Len(snapLists[p]) \in Nat
        BY <2>1, <2>2, VMListViewAssumption
    <2>4. QED BY <2>1, <2>2, <2>3
<1>5. QED BY <1>3, <1>4

(* A choice that has been checked passes the check.                        *)
LEMMA CheckedIsChecked ==
    ASSUME UNCHANGED published, Choice(Checked)
    PROVE  choice' = Checked'
<1>1. vmList' = vmList /\ vmRunningList' = vmRunningList /\ snapLists' = snapLists
    BY DEF published
<1>2. \A c : (MachineIsGone(c) <=> MachineIsGone(c)') /\ \A r : RowIsGone(c, r) <=> RowIsGone(c, r)'
    BY <1>1 DEF MachineIsGone, RowIsGone, snapList
<1>3. chosenValue' = Checked[1] /\ selectedRow' = Checked[2]
    BY DEF Choice
<1>4. CASE MachineIsGone(chosenValue)
    BY <1>3, <1>4 DEF Checked, choice
<1>5. CASE ~MachineIsGone(chosenValue) /\ chosenValue # Null /\ RowIsGone(chosenValue, selectedRow)
    BY <1>2, <1>3, <1>5 DEF Checked, choice
<1>6. CASE ~MachineIsGone(chosenValue) /\ ~(chosenValue # Null /\ RowIsGone(chosenValue, selectedRow))
    BY <1>2, <1>3, <1>6 DEF Checked, choice
<1>7. QED BY <1>4, <1>5, <1>6

LEMMA BuildKeepsScreenInv ==
    ASSUME ScreenInv, Build
    PROVE  ChoiceTypes' /\ BuiltFromChecked'
<1>1. UNCHANGED <<viewVars, open>> /\ dirty' = FALSE
    BY DEF Build
<1>2. vmList' = vmList /\ vmRunningList' = vmRunningList /\ snapLists' = snapLists /\ UNCHANGED published
    BY <1>1 DEF viewVars, published
<1>3. CASE CheckThrows
    <2>1. intact' = FALSE /\ UNCHANGED <<choice, saved>>
        BY <1>3 DEF Build
    <2>2. CheckThrows'
        BY <1>2, <1>3, <2>1 DEF CheckThrows, MachineIsGone, snapList, choice
    <2>3. QED BY <1>1, <2>1, <2>2 DEF ScreenInv, ChoiceTypes, BuiltFromChecked, choice
<1>4. CASE ~CheckThrows
    <2>1. /\ Choice(Checked) /\ saved' = Checked
          /\ intact' = ~(StatusThrows(Checked[1]) \/ TableThrows(Checked[1]))
        BY <1>4 DEF Build
    <2>2. Checked \in Chosen \X Selected
        BY DEF ScreenInv, ChoiceTypes, Checked, choice, Chosen, Selected
    <2>3. chosenValue' = Checked[1]
        BY <2>1 DEF Choice
    <2>4. \A c : (StatusThrows(c) <=> StatusThrows(c)') /\ (TableThrows(c) <=> TableThrows(c)')
        BY <1>2 DEF StatusThrows, TableThrows, NoRows, Rows, snapList, snapDescList
    <2>5. intact' = ~Throws'
        BY <2>1, <2>3, <2>4 DEF Throws
    <2>6. choice' = Checked'
        BY <1>2, <2>1, CheckedIsChecked
    <2>7. chosenValue' \in Chosen /\ selectedRow' \in Selected
        BY <2>1, <2>2 DEF Choice
    <2>8. BuiltFromChecked'
        BY <2>5, <2>6 DEF BuiltFromChecked
    <2>9. QED BY <1>1, <2>1, <2>2, <2>5, <2>7, <2>8 DEF ScreenInv, ChoiceTypes
<1>5. QED BY <1>3, <1>4

LEMMA ChooseMachineKeepsScreenInv ==
    ASSUME ScreenInv, ChooseMachine
    PROVE  ChoiceTypes' /\ BuiltFromChecked'
<1>1. PICK index \in 0..Len(vmList) - 1 : chosenValue' = index
    BY DEF ChooseMachine
<1>2. index \in 0..MaxVMs - 1
    BY <1>1, ScreenLists, VMListViewAssumption DEF ScreenInv
<1>3. dirty' = TRUE /\ UNCHANGED <<open, selectedRow, saved, intact>>
    BY DEF ChooseMachine
<1>4. QED BY <1>1, <1>2, <1>3 DEF ScreenInv, ChoiceTypes, BuiltFromChecked, Chosen

LEMMA SelectRowKeepsScreenInv ==
    ASSUME ScreenInv, SelectRow
    PROVE  ChoiceTypes' /\ BuiltFromChecked'
<1>1. PICK index \in 0..Rows(chosenValue) - 1 :
          selectedRow' = IF selectedRow = index THEN -1 ELSE index
    BY DEF SelectRow
<1>2. dirty' = TRUE /\ UNCHANGED <<open, chosenValue, saved, intact>>
    BY DEF SelectRow
<1>3. ~TableThrows(chosenValue)
    BY DEF SelectRow, OnScreen, ScreenInv, BuiltFromChecked, Throws
<1>4. ~NoRows(chosenValue)
    BY <1>1 DEF Rows
<1>5. OrZero(chosenValue) \in 0..Len(snapList) - 1
    BY <1>3, <1>4 DEF TableThrows, Has
<1>6. OrZero(chosenValue) + 1 \in 1..Len(snapList)
    BY <1>5, ScreenLists DEF ScreenInv, snapList, SnapPorts
<1>7. Rows(chosenValue) \in 0..MaxSnaps
    BY <1>4, <1>6, ScreenLists DEF ScreenInv, Rows, At, snapList, SnapPorts
<1>8. index \in 0..MaxSnaps - 1 /\ -1 \in -1..MaxSnaps - 1
    BY <1>1, <1>7, VMListViewAssumption
<1>9. selectedRow' \in Selected
    BY <1>1, <1>8 DEF Selected
<1>10. QED BY <1>2, <1>9 DEF ScreenInv, ChoiceTypes, BuiltFromChecked

(* Whatever is heard while the screen stays as it was built, what it looks *)
(* at has not changed.                                                     *)
LEMMA ViewKeepsScreenInv ==
    ASSUME ScreenInv, View
    PROVE  ChoiceTypes' /\ BuiltFromChecked'
<1>1. /\ dirty' = (open /\ (dirty \/ published' # published))
      /\ UNCHANGED <<open, choice, saved, intact>>
    BY DEF View
<1>2. dirty' \in BOOLEAN
    BY <1>1
<1>3. ChoiceTypes'
    BY <1>1, <1>2 DEF ScreenInv, ChoiceTypes, choice
<1>4. ASSUME open', ~dirty' PROVE BuiltFromChecked'
    <2>1. open /\ ~dirty /\ published' = published
        BY <1>1, <1>4
    <2>2. /\ vmList' = vmList /\ vmRunningList' = vmRunningList /\ snapLists' = snapLists
          /\ chosenValue' = chosenValue /\ selectedRow' = selectedRow /\ intact' = intact
        BY <1>1, <2>1 DEF published, choice
    <2>3. CheckThrows' = CheckThrows /\ Throws' = Throws /\ Checked' = Checked
        BY <2>2 DEF CheckThrows, Throws, Checked, StatusThrows, TableThrows, MachineIsGone, RowIsGone,
                    NoRows, Rows, snapList, snapDescList, choice
    <2>4. QED BY <1>1, <2>1, <2>2, <2>3 DEF ScreenInv, BuiltFromChecked
<1>5. QED BY <1>3, <1>4 DEF BuiltFromChecked

LEMMA ScreenStepOfView == [Next]_vars => [ViewNext]_viewVars
    BY DEF Next, View, Open, Close, Build, ChooseMachine, SelectRow, vars

LEMMA ScreenInvNext == ScreenInv /\ [Next]_vars => ScreenInv'
<1> SUFFICES ASSUME ScreenInv, [Next]_vars PROVE ScreenInv'
    OBVIOUS
<1>1. ViewInv'
    BY ScreenStepOfView, ViewInvNext DEF ScreenInv
<1>2. CASE View
    BY <1>1, <1>2, ViewKeepsScreenInv DEF ScreenInv
<1>3. CASE Open
    <2>1. saved = <<saved[1], saved[2]>> /\ saved[1] \in Chosen /\ saved[2] \in Selected
        BY DEF ScreenInv, ChoiceTypes
    <2>2. ChoiceTypes' /\ BuiltFromChecked'
        BY <1>3, <2>1 DEF Open, Choice, ScreenInv, ChoiceTypes, BuiltFromChecked
    <2>3. QED BY <1>1, <2>2 DEF ScreenInv
<1>4. CASE Close
    <2>1. Null \in Chosen /\ Null \in Selected
        BY DEF Chosen, Selected
    <2>2. ChoiceTypes' /\ BuiltFromChecked'
        BY <1>4, <2>1 DEF Close, Choice, ScreenInv, ChoiceTypes, BuiltFromChecked
    <2>3. QED BY <1>1, <2>2 DEF ScreenInv
<1>5. CASE Build
    BY <1>1, <1>5, BuildKeepsScreenInv DEF ScreenInv
<1>6. CASE ChooseMachine
    BY <1>1, <1>6, ChooseMachineKeepsScreenInv DEF ScreenInv
<1>7. CASE SelectRow
    BY <1>1, <1>7, SelectRowKeepsScreenInv DEF ScreenInv
<1>8. CASE UNCHANGED vars
    <2>1. UNCHANGED <<published, open, choice, saved, dirty, intact>>
        BY <1>8 DEF vars, viewVars, screenVars
    <2>2. /\ vmList' = vmList /\ vmRunningList' = vmRunningList /\ snapLists' = snapLists
          /\ chosenValue' = chosenValue /\ selectedRow' = selectedRow
        BY <2>1 DEF published, choice
    <2>3. CheckThrows' = CheckThrows /\ Throws' = Throws /\ Checked' = Checked
        BY <2>2 DEF CheckThrows, Throws, Checked, StatusThrows, TableThrows, MachineIsGone, RowIsGone,
                    NoRows, Rows, snapList, snapDescList, choice
    <2>4. QED BY <1>1, <2>1, <2>2, <2>3 DEF ScreenInv, ChoiceTypes, BuiltFromChecked
<1>9. QED BY <1>2, <1>3, <1>4, <1>5, <1>6, <1>7, <1>8 DEF Next

(* The inductive invariant: the lists are on the way to what they are due   *)
(* to show, the choice has its types, and a screen that was built from     *)
(* lists of the right sizes is still what those lists make of it.          *)
THEOREM ScreenInvariant == Spec => []ScreenInv
    BY ScreenInvInit, ScreenInvNext, PTL DEF Spec

-----------------------------------------------------------------------------
(* The settled view, as the screen finds it.                               *)

LEMMA SettledLists ==
    ASSUME ViewInv, Settled, due.snaps # 0
    PROVE  /\ due.snaps \in 1..Len(decoded)
           /\ \E L \in Nat \ {0} :
                 /\ L = Len(decoded[due.snaps])
                 /\ snapList = Snaps(due.snaps) /\ snapDescList = Snaps(due.snaps)
                 /\ Len(Snaps(due.snaps)) = L /\ Len(Machines(due.snaps)) = L
                 /\ vmRunningList # Null =>
                       /\ due.machines = due.snaps
                       /\ vmList = Machines(due.snaps) /\ vmRunningList = vmList
                 /\ vmRunningList = Null => vmList = << >>
<1> DEFINE L == Len(decoded[due.snaps])
<1>1. /\ due.snaps \in 1..Len(decoded) /\ decoded[due.snaps] # << >>
      /\ due.machines \in {0, due.snaps}
    BY DEF ViewInv, Backend
<1>2. L \in Nat /\ L # 0
    BY <1>1, ListTypes, VMListViewAssumption DEF ViewInv, Backend
<1>3. Shows(Due) /\ Due.vm = due.machines /\ \A p \in SnapPorts : Due.snaps[p] = due.snaps
    BY ViewInvSettled DEF Settled, Due, Resting
<1> DEFINE d == Due
<1> HIDE DEF d
<1>4. /\ vmList = Machines(due.machines)
      /\ vmRunningList = IF due.machines = 0 THEN Null ELSE Machines(due.machines)
      /\ \A p \in SnapPorts : snapLists[p] = Snaps(due.snaps)
    BY <1>3 DEF Shows
<1>5. Machines(0) = << >>
    BY DEF Machines
<1>6. /\ Machines(due.snaps) = Names(due.snaps, L) /\ Snaps(due.snaps) = SnapLists(decoded, due.snaps, L)
    <2>1. decoded \in Lists
        BY DEF ViewInv, Backend
    <2>2. QED BY <1>1, <2>1, MessageLists
<1> HIDE DEF L
<1>7. Len(Names(due.snaps, L)) = L /\ Len(SnapLists(decoded, due.snaps, L)) = L
    BY <1>2, NamesGrow, SnapListsGrow
<1>8. /\ snapList = Snaps(due.snaps) /\ snapDescList = Snaps(due.snaps)
      /\ Len(Snaps(due.snaps)) = L /\ Len(Machines(due.snaps)) = L
    BY <1>4, <1>6, <1>7 DEF snapList, snapDescList, SnapPorts
<1>9. vmRunningList # Null => /\ due.machines = due.snaps
                              /\ vmList = Machines(due.snaps) /\ vmRunningList = vmList
    BY <1>1, <1>4
<1>10. vmRunningList = Null => vmList = << >>
    <2>1. Machines(due.snaps) # Null
        BY <1>1, PublishedTypes, ListTypes DEF ViewInv, Backend
    <2>2. QED BY <1>1, <1>4, <1>5, <2>1
<1>11. L \in Nat \ {0} /\ L = Len(decoded[due.snaps])
    BY <1>2 DEF L
<1>12. QED BY <1>1, <1>8, <1>9, <1>10, <1>11

(* The choice is a machine of the last VM_LIST, or the first.              *)
LEMMA SettledChoice ==
    ASSUME ScreenInv, Settled, due.snaps # 0, NEW L, L = Len(decoded[due.snaps]),
           chosenValue # Null => ~MachineIsGone(chosenValue)
    PROVE  OrZero(chosenValue) \in 0..L - 1
<1>1. /\ L \in Nat \ {0} /\ Len(Machines(due.snaps)) = L
      /\ vmRunningList # Null => vmList = Machines(due.snaps)
    BY SettledLists DEF ScreenInv
<1>2. CASE chosenValue = Null
    BY <1>1, <1>2 DEF OrZero
<1>3. CASE chosenValue # Null
    <2>1. OrZero(chosenValue) \in Nat
        BY <1>3, VMListViewAssumption DEF ScreenInv, ChoiceTypes, Chosen, OrZero
    <2>2. OrZero(chosenValue) < L
        BY <1>1, <1>3, <2>1 DEF MachineIsGone
    <2>3. QED BY <1>1, <2>1, <2>2
<1>4. QED BY <1>2, <1>3

LEMMA ScreenInvBuilt == ScreenInv => SettledScreenIsBuilt
<1> SUFFICES ASSUME ScreenInv, open, ~dirty, Settled, due.snaps # 0, ~intact PROVE FALSE
    BY DEF SettledScreenIsBuilt
<1> DEFINE L == Len(decoded[due.snaps])
           c == chosenValue
<1>1. CheckThrows \/ (choice = Checked /\ Throws)
    BY DEF ScreenInv, BuiltFromChecked
<1>2. /\ L \in Nat \ {0}
      /\ snapList = Snaps(due.snaps) /\ snapDescList = Snaps(due.snaps) /\ Len(snapList) = L
      /\ Len(Machines(due.snaps)) = L
      /\ vmRunningList # Null => vmRunningList = Machines(due.snaps)
    BY SettledLists DEF ScreenInv
<1>3. c # Null => ~MachineIsGone(c)
    BY <1>1 DEF CheckThrows, Checked, choice
<1>4. OrZero(c) \in 0..L - 1
    BY <1>3, SettledChoice
<1>5. ~CheckThrows
    BY <1>2, <1>4 DEF CheckThrows, Has, OrZero
<1>6. ~StatusThrows(c)
    BY <1>2, <1>4 DEF StatusThrows, Has
<1>7. ~TableThrows(c)
    <2>1. Has(snapList, OrZero(c)) /\ Has(snapDescList, OrZero(c))
        BY <1>2, <1>4 DEF Has
    <2>2. Len(At(snapList, OrZero(c))) \in Nat
        <3>1. OrZero(c) + 1 \in 1..Len(snapList)
            BY <1>2, <1>4
        <3>2. \A i \in 1..Len(snapList) : Len(snapList[i]) \in 0..MaxSnaps
            BY ScreenLists DEF ScreenInv, snapList, SnapPorts
        <3>3. QED BY <3>1, <3>2, VMListViewAssumption DEF At
    <2>3. ~NoRows(c) => Rows(c) = Len(At(snapDescList, OrZero(c)))
        BY <1>2 DEF Rows
    <2>4. ~NoRows(c) => ~(Rows(c) > Len(At(snapDescList, OrZero(c))))
        BY <1>2, <2>2, <2>3
    <2>5. QED BY <2>1, <2>4 DEF TableThrows
<1>8. QED BY <1>1, <1>5, <1>6, <1>7 DEF Throws

LEMMA ScreenInvRestore == ScreenInv => SettledRestoreIsExact
<1> SUFFICES ASSUME ScreenInv, RestoreEnabled, Settled, chosenValue # Null
             PROVE  /\ RestoreInRange
                    /\ RestoredVM = <<due.machines, chosenValue + 1>>
                    /\ RestoredSnap = <<due.snaps, chosenValue + 1, selectedRow + 1>>
                    /\ due.machines = due.snaps
    BY DEF SettledRestoreIsExact
<1> DEFINE L == Len(decoded[due.snaps])
           c == chosenValue
           r == selectedRow
<1>1. choice = Checked
    BY DEF RestoreEnabled, OnScreen, ScreenInv, BuiltFromChecked
<1>2. ~MachineIsGone(c)
    BY <1>1 DEF Checked, choice
<1>3. r \in 0..MaxSnaps - 1 /\ r # Null
    <2>1. r \in Selected /\ ~(-1 >= 0)
        BY DEF ScreenInv, ChoiceTypes
    <2>2. r # Null
        BY <2>1 DEF RestoreEnabled
    <2>3. r >= 0
        BY <2>2 DEF RestoreEnabled
    <2>4. r \in -1..MaxSnaps - 1
        BY <2>1, <2>2 DEF Selected
    <2>5. QED BY <2>2, <2>3, <2>4, VMListViewAssumption
<1>4. ~RowIsGone(c, r)
    BY <1>1, <1>2, <1>3 DEF Checked, choice
<1>5. due.snaps # 0
    <2>1. vmRunningList # Null
        BY <1>2 DEF MachineIsGone
    <2>2. Shows(Due) /\ Due.vm = due.machines
        BY ViewInvSettled DEF ScreenInv, Settled, Due, Resting
    <2> DEFINE d == Due
    <2> HIDE DEF d
    <2>3. due.machines # 0
        BY <2>1, <2>2 DEF Shows
    <2>4. QED BY <2>3 DEF ScreenInv, ViewInv, Backend
<1>6. /\ L \in Nat \ {0} /\ due.snaps \in 1..Len(decoded)
      /\ snapList = Snaps(due.snaps) /\ Len(Snaps(due.snaps)) = L /\ Len(Machines(due.snaps)) = L
      /\ vmRunningList # Null => due.machines = due.snaps /\ vmList = Machines(due.snaps)
    BY <1>5, SettledLists DEF ScreenInv
<1>7. due.machines = due.snaps /\ vmList = Machines(due.snaps)
    BY <1>2, <1>6 DEF MachineIsGone
<1>8. c \in 0..L - 1 /\ OrZero(c) = c /\ OrZero(r) = r
    BY <1>2, <1>3, <1>5, SettledChoice DEF OrZero
<1>9. /\ vmList = Names(due.snaps, L)
      /\ snapList = SnapLists(decoded, due.snaps, L)
    BY <1>6, <1>7, MessageLists DEF ScreenInv, ViewInv, Backend
<1>10. c + 1 \in 1..L /\ decoded[due.snaps][c + 1] \in Nat
    <2>1. c + 1 \in 1..L
        BY <1>6, <1>8
    <2>2. QED BY <1>6, <2>1, ListTypes, VMListViewAssumption DEF ScreenInv, ViewInv, Backend
<1>11. At(snapList, c) = SnapNames(due.snaps, c + 1, decoded[due.snaps][c + 1])
    <2>1. SnapLists(decoded, due.snaps, L)[c + 1] = SnapNames(due.snaps, c + 1, decoded[due.snaps][c + 1])
        BY <1>10 DEF SnapLists
    <2>2. QED BY <1>9, <2>1 DEF At
<1>12. Len(At(snapList, c)) = decoded[due.snaps][c + 1]
    <2> DEFINE n == decoded[due.snaps][c + 1]
    <2>1. n \in Nat /\ At(snapList, c) = SnapNames(due.snaps, c + 1, n)
        BY <1>10, <1>11
    <2> HIDE DEF n
    <2>2. Len(SnapNames(due.snaps, c + 1, n)) = n
        BY <2>1, SnapNamesGrow
    <2>3. QED BY <2>1, <2>2 DEF n
<1>13. r < Len(At(snapList, c))
    BY <1>3, <1>4, <1>8, <1>10, <1>12 DEF RowIsGone
<1>14. RestoreInRange
    BY <1>3, <1>6, <1>7, <1>8, <1>10, <1>12, <1>13 DEF RestoreInRange, Has
<1>15. RestoredVM = <<due.machines, c + 1>>
    BY <1>7, <1>8, <1>9, <1>10 DEF RestoredVM, At, Names
<1>16. RestoredSnap = <<due.snaps, c + 1, r + 1>>
    <2>1. r + 1 \in 1..decoded[due.snaps][c + 1]
        BY <1>3, <1>10, <1>12, <1>13
    <2>2. SnapNames(due.snaps, c + 1, decoded[due.snaps][c + 1])[r + 1] = <<due.snaps, c + 1, r + 1>>
        BY <2>1 DEF SnapNames
    <2>3. RestoredSnap = At(snapList, c)[r + 1]
        BY <1>8 DEF RestoredSnap, At
    <2>4. QED BY <1>11, <2>2, <2>3
<1>17. QED BY <1>7, <1>14, <1>15, <1>16

-----------------------------------------------------------------------------
(* Every variable keeps its type.                                          *)
THEOREM ScreenTypeCorrect == Spec => []ScreenTypeOK
<1>1. ScreenInv => ScreenTypeOK
    BY ViewInvTypeOK DEF ScreenInv, ChoiceTypes, ScreenTypeOK
<1>2. QED BY <1>1, ScreenInvariant, PTL

(* The states on display are those of the machines on display, all of one  *)
(* VM_LIST, whatever the listeners of the ports have half filled.          *)
THEOREM StatesBelongToMachines == Spec => []StatesAreOfTheirMachines
<1>1. ScreenInv => StatesAreOfTheirMachines
    BY ViewInvStates DEF ScreenInv
<1>2. QED BY <1>1, ScreenInvariant, PTL

(* When the ports are empty all the lists are those of the last VM_LIST    *)
(* that had machines, and nothing is left half filled.                     *)
THEOREM SettledViewIsRight == Spec => []SettledViewIsDue
<1>1. ScreenInv => SettledViewIsDue
    BY ViewInvDue DEF ScreenInv
<1>2. QED BY <1>1, ScreenInvariant, PTL

(* The snapshots are published whole, under the machines of their VM_LIST. *)
THEOREM SnapshotsJoinTheirMachines == Spec => SnapsJoinTheirMachines
<1> DEFINE Joins == \A p \in SnapPorts : snapLists'[p] # snapLists[p] =>
                        \E id \in 1..Len(decoded) : vmList = Machines(id) /\ snapLists'[p] = Snaps(id)
<1>1. ScreenInv /\ [Next]_vars => [Joins]_viewVars
    BY ScreenStepOfView, ViewInvSnaps DEF ScreenInv
<1>2. Spec => [][Joins]_viewVars
    BY <1>1, ScreenInvariant, PTL DEF Spec
<1>3. QED BY <1>2 DEF SnapsJoinTheirMachines

(* The screen is built without an error once the lists have settled.       *)
THEOREM SettledScreenGetsBuilt == Spec => []SettledScreenIsBuilt
    BY ScreenInvBuilt, ScreenInvariant, PTL

(* The restore button names the machine and the snapshot that were chosen. *)
THEOREM SettledRestoreNamesTheChoice == Spec => []SettledRestoreIsExact
    BY ScreenInvRestore, ScreenInvariant, PTL
=============================================================================
