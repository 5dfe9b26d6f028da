-------------------------- MODULE SupervisorProofs --------------------------
(***************************************************************************)
(* Proofs about Supervisor for every number of applications, of            *)
(* configurations and of processes.                                        *)
(***************************************************************************)
EXTENDS Supervisor, SequenceTheorems, TLAPS

(* Processes are born in the order of their pids, and only born processes  *)
(* are watched or held.                                                    *)
Births ==
    /\ \A p \in Pids : status[p] = "unborn" <=> p > spawned
    /\ receivers \subseteq 1..spawned
    /\ \A j \in DOMAIN children : children[j] \in 0..spawned

(* A START pushes a handle for every script and nothing but a STOP removes *)
(* slots, so slot i holds instances of script i alone.                     *)
SlotsHoldTheirScript ==
    up => /\ children = << >> \/ Len(children) >= NumApps
          /\ \A i \in Apps \cap DOMAIN children :
                children[i] # Released => program[children[i]] = i

(* The inductive invariant.                                                *)
IInv ==
    /\ TypeOK
    /\ Births
    /\ SlotsHoldTheirScript
    /\ NoOrphans
    /\ SimOffMeansNothingRuns
    /\ KillPendingIsWatched
    /\ NoLostWakeup

(* What pushing the handles of the next n processes does to children.      *)
LEMMA PushedHandles ==
    ASSUME TypeOK, Births, NEW n \in Nat, spawned + n <= MaxProcs,
           NEW new, new = children \o Handles(n)
    PROVE  /\ new \in Seq(0..MaxProcs)
           /\ Len(new) = Len(children) + n
           /\ \A j \in 1..Len(children) : new[j] = children[j]
           /\ \A i \in 1..n : new[Len(children) + i] = spawned + i
           /\ \A j \in DOMAIN new : new[j] \in 0..(spawned + n)
<1> DEFINE handles == Handles(n)
<1>1. /\ spawned \in Nat /\ MaxProcs \in Nat
      /\ children \in Seq(0..MaxProcs)
      /\ Len(children) \in Nat
    BY SupervisorAssumption DEF TypeOK
<1>2. handles \in Seq(0..MaxProcs) /\ Len(handles) = n
    BY <1>1 DEF Handles
<1> HIDE DEF handles
<1>3. /\ new \in Seq(0..MaxProcs)
      /\ Len(new) = Len(children) + n
      /\ \A i \in 1..(Len(children) + n) :
            new[i] = IF i <= Len(children) THEN children[i] ELSE handles[i - Len(children)]
    BY <1>1, <1>2, ConcatProperties DEF handles
<1>4. \A j \in 1..Len(children) : new[j] = children[j]
    BY <1>1, <1>3
<1>5. \A i \in 1..n : new[Len(children) + i] = spawned + i
    <2> SUFFICES ASSUME NEW i \in 1..n PROVE new[Len(children) + i] = spawned + i
        OBVIOUS
    <2> DEFINE j == Len(children) + i
    <2>1. /\ j \in 1..(Len(children) + n)
          /\ ~(j <= Len(children))
          /\ j - Len(children) = i
        BY <1>1
    <2>2. new[j] = handles[j - Len(children)]
        BY <2>1, <1>3
    <2>3. QED BY <2>1, <2>2 DEF handles, Handles
<1>6. ASSUME NEW j \in DOMAIN new PROVE new[j] \in 0..(spawned + n)
    <2>1. j \in 1..(Len(children) + n)
        BY <1>3
    <2>2. CASE j <= Len(children)
        <3>1. children[j] \in 0..spawned
            BY <2>1, <2>2, <1>1 DEF Births
        <3>2. QED BY <3>1, <2>1, <2>2, <1>1, <1>4
    <2>3. CASE ~(j <= Len(children))
        <3>1. j - Len(children) \in 1..n
            BY <2>1, <2>3, <1>1
        <3>2. new[j] = spawned + (j - Len(children))
            BY <2>1, <2>3, <1>1, <1>3, <3>1 DEF handles, Handles
        <3>3. QED BY <3>1, <3>2, <1>1
    <2>4. QED BY <2>2, <2>3
<1>7. QED BY <1>3, <1>4, <1>5, <1>6

(* Every step keeps the invariant, for the steps that spawn, walk, or let  *)
(* a process die.                                                          *)
LEMMA PowerOnKeeps ==
    ASSUME IInv, NEW cfg, PowerOn(cfg) PROVE IInv'
<1> USE SupervisorAssumption
<1> DEFINE born == (spawned + 1)..(spawned + NumApps)
<1>1. /\ up /\ up' /\ scan = {} /\ scan' = {} /\ ~processing_kill /\ ~processing_kill' /\ sim_started'
      /\ spawned \in Nat /\ NumApps \in Nat \ {0} /\ spawned + NumApps <= MaxProcs /\ MaxProcs \in Nat
      /\ spawned' = spawned + NumApps
      /\ sigchld' = sigchld
    BY DEF IInv, TypeOK, PowerOn, Idle, Start
<1>2. /\ children' \in Seq(0..MaxProcs)
      /\ Len(children') = Len(children) + NumApps
      /\ \A j \in 1..Len(children) : children'[j] = children[j]
      /\ \A i \in 1..NumApps : children'[Len(children) + i] = spawned + i
      /\ \A j \in DOMAIN children' : children'[j] \in 0..(spawned + NumApps)
    <2>1. TypeOK /\ Births /\ children' = children \o Handles(NumApps)
        BY DEF IInv, PowerOn
    <2>2. NumApps \in Nat /\ spawned + NumApps <= MaxProcs
        BY <1>1
    <2>3. QED BY ONLY <2>1, <2>2, PushedHandles
<1>3. /\ \A p \in born : status'[p] = "running" /\ program'[p] = p - spawned
      /\ \A p \in Pids \ born : status'[p] = status[p] /\ program'[p] = program[p]
      /\ receivers' = receivers \cup born
      /\ born \subseteq Pids
    BY <1>1 DEF PowerOn, Start, Pids, Apps, IInv, TypeOK
<1>4. TypeOK'
    <2>1. \A p \in born : p - spawned \in Apps
        BY <1>1 DEF Apps
    <2>2. program' \in [Pids -> Apps \cup {KillScript}]
        BY <2>1 DEF PowerOn, Start, IInv, TypeOK, Apps
    <2>3. status' \in [Pids -> {"unborn", "running", "zombie", "reaped"}]
        BY DEF PowerOn, Start, IInv, TypeOK
    <2>4. QED BY <1>1, <1>2, <1>3, <2>2, <2>3 DEF IInv, TypeOK, PowerOn, Sim!SimTypeOK
<1>5. Births'
    BY <1>1, <1>2, <1>3 DEF IInv, TypeOK, Births, Pids
<1>6. SlotsHoldTheirScript'
    <2>1. Len(children) \in Nat /\ (Len(children) = 0 <=> children = << >>)
        BY EmptySeq DEF IInv, TypeOK
    <2>2. Len(children') >= NumApps
        BY <1>1, <1>2, <2>1
    <2>3. ASSUME NEW i \in Apps, children'[i] # Released PROVE program'[children'[i]] = i
        <3>1. CASE children = << >>
            <4>1. children'[i] = spawned + i
                BY <1>2, <2>1, <3>1 DEF Apps
            <4>2. spawned + i \in born
                BY <1>1 DEF Apps
            <4>3. QED BY <1>1, <1>3, <4>1, <4>2 DEF Apps
        <3>2. CASE children # << >>
            <4>1. i \in DOMAIN children /\ children'[i] = children[i]
                BY <1>1, <1>2, <2>1, <3>2 DEF IInv, SlotsHoldTheirScript, Apps
            <4>2. children[i] \in Pids \ born /\ program[children[i]] = i
                BY <1>1, <2>3, <4>1 DEF IInv, SlotsHoldTheirScript, Births, Pids, Released
            <4>3. QED BY <1>3, <4>1, <4>2
        <3>3. QED BY <3>1, <3>2
    <2>4. QED BY <2>2, <2>3 DEF SlotsHoldTheirScript
<1>7. NoOrphans'
    <2> SUFFICES ASSUME NEW p \in Pids, status'[p] = "running", program'[p] \in Apps
                 PROVE  \E j \in DOMAIN children' : children'[j] = p
        BY DEF NoOrphans, Running
    <2>1. CASE p \in born
        <3>1. /\ p - spawned \in 1..NumApps
              /\ Len(children) + (p - spawned) \in DOMAIN children'
              /\ spawned + (p - spawned) = p
            BY <1>1, <1>2, <2>1 DEF IInv, TypeOK
        <3>2. QED BY <1>2, <3>1
    <2>2. CASE p \notin born
        <3>1. PICK j \in DOMAIN children : children[j] = p
            BY <1>1, <1>3, <2>2 DEF IInv, NoOrphans, Running
        <3>2. j \in 1..Len(children) /\ j \in DOMAIN children'
            BY <1>1, <1>2, <3>1 DEF IInv, TypeOK
        <3>3. children'[j] = p
            BY <1>2, <3>1, <3>2
        <3>4. QED BY <3>2, <3>3
    <2>3. QED BY <2>1, <2>2
<1>8. SimOffMeansNothingRuns'
    BY <1>1 DEF SimOffMeansNothingRuns
<1>9. KillPendingIsWatched'
    <2>1. \A p \in born : program'[p] # KillScript
        BY <1>1, <1>3 DEF KillScript
    <2>2. receivers \subseteq Pids \ born
        BY <1>1 DEF IInv, TypeOK, Births, Pids
    <2>3. \A p \in receivers' : program'[p] = KillScript <=> p \in receivers /\ program[p] = KillScript
        BY <1>3, <2>1, <2>2
    <2>4. KillScriptsPending' = KillScriptsPending
        BY <1>3, <2>3 DEF KillScriptsPending
    <2>5. QED BY <1>1, <2>4 DEF KillPendingIsWatched, IInv
<1>10. NoLostWakeup'
    BY <1>1, <1>3 DEF IInv, TypeOK, NoLostWakeup, Running
<1>11. QED BY <1>4, <1>5, <1>6, <1>7, <1>8, <1>9, <1>10 DEF IInv

LEMMA PowerOnFailsKeeps ==
    ASSUME IInv, NEW cfg, NEW k \in Apps, PowerOnFails(cfg, k) PROVE IInv'
<1> USE SupervisorAssumption
<1> DEFINE n == k - 1
           born == (spawned + 1)..(spawned + n)
<1>1. /\ ~up' /\ scan' = {} /\ k \in Nat /\ n \in Nat /\ n < NumApps
      /\ spawned \in Nat /\ NumApps \in Nat \ {0} /\ spawned + n <= MaxProcs /\ MaxProcs \in Nat
      /\ spawned' = spawned + n
    BY DEF IInv, TypeOK, PowerOnFails, Idle, Start, Apps
<1>2. /\ children' \in Seq(0..MaxProcs)
      /\ \A j \in DOMAIN children' : children'[j] \in 0..(spawned + n)
    <2>1. TypeOK /\ Births /\ children' = children \o Handles(n) /\ n \in Nat /\ spawned + n <= MaxProcs
        BY <1>1 DEF IInv, PowerOnFails
    <2> HIDE DEF n
    <2>2. QED BY ONLY <2>1, PushedHandles
<1>3. /\ \A p \in born : status'[p] = "running" /\ program'[p] = p - spawned
      /\ \A p \in Pids \ born : status'[p] = status[p] /\ program'[p] = program[p]
      /\ receivers' = receivers \cup born
      /\ born \subseteq Pids
    BY <1>1 DEF PowerOnFails, Start, Pids, Apps, IInv, TypeOK
<1>4. TypeOK'
    <2>1. \A p \in Pids : program'[p] \in Apps \cup {KillScript}
        <3>1. \A p \in born : p - spawned \in Apps
            BY <1>1 DEF Apps
        <3>2. QED BY <1>3, <3>1 DEF IInv, TypeOK
    <2>2. program' \in [Pids -> Apps \cup {KillScript}]
        BY <2>1 DEF PowerOnFails, Start
    <2>3. status' \in [Pids -> {"unborn", "running", "zombie", "reaped"}]
        BY DEF PowerOnFails, Start, IInv, TypeOK
    <2>4. spawned' \in 0..MaxProcs /\ receivers' \subseteq Pids /\ scan' \subseteq receivers'
        BY <1>1, <1>3 DEF IInv, TypeOK
    <2>5. Sim!SimTypeOK' /\ sigchld' \in BOOLEAN
        BY DEF IInv, TypeOK, PowerOnFails, Sim!SimTypeOK
    <2>6. QED BY <1>2, <2>2, <2>3, <2>4, <2>5 DEF TypeOK
<1>5. Births'
    <2>1. \A p \in Pids : status'[p] = "unborn" <=> p > spawned'
        <3>1. SUFFICES ASSUME NEW p \in Pids PROVE status'[p] = "unborn" <=> p > spawned'
            OBVIOUS
        <3>2. CASE p \in born
            BY <1>1, <1>3, <3>2
        <3>3. CASE p \notin born
            BY <1>1, <1>3, <3>3 DEF IInv, Births, Pids
        <3>4. QED BY <3>2, <3>3
    <2>2. receivers' \subseteq 1..spawned'
        BY <1>1, <1>3 DEF IInv, Births
    <2>3. QED BY <1>1, <1>2, <2>1, <2>2 DEF Births
<1>6. QED
    BY <1>1, <1>4, <1>5
    DEF IInv, SlotsHoldTheirScript, NoOrphans, SimOffMeansNothingRuns, KillPendingIsWatched, NoLostWakeup

LEMMA PowerOffKeeps ==
    ASSUME IInv, PowerOff PROVE IInv'
<1> USE SupervisorAssumption
<1> DEFINE kill == spawned + 1
<1>1. /\ up /\ up' /\ scan = {} /\ scan' = {} /\ ~processing_kill /\ processing_kill'
      /\ spawned \in Nat /\ kill \in Pids /\ kill <= MaxProcs /\ MaxProcs \in Nat
      /\ spawned' = kill
      /\ sigchld' = sigchld /\ children' = children /\ sim_started' = sim_started
    BY DEF IInv, TypeOK, PowerOff, Idle, Start, Pids
<1>2. /\ status' = [status EXCEPT ![kill] = "running"]
      /\ program' = [program EXCEPT ![kill] = KillScript]
      /\ receivers' = receivers \cup {kill}
    <2>1. \A p \in Pids : p \in (spawned + 1)..(spawned + 1) <=> p = kill
        BY <1>1 DEF Pids
    <2>2. <<KillScript>>[kill - spawned] = KillScript
        BY <1>1
    <2>3. receivers' = receivers \cup {kill}
        BY <1>1 DEF PowerOff, Start
    <2>4. QED BY <1>1, <2>1, <2>2, <2>3 DEF PowerOff, Start, IInv, TypeOK
<1>3. TypeOK'
    BY <1>1, <1>2 DEF IInv, TypeOK, Sim!SimTypeOK
<1>4. Births'
    BY <1>1, <1>2 DEF IInv, TypeOK, Births, Pids
<1>5. \A j \in DOMAIN children : children[j] # kill
    BY <1>1 DEF IInv, Births
<1>6. SlotsHoldTheirScript'
    <2>1. SUFFICES ASSUME NEW i \in Apps \cap DOMAIN children, children[i] # Released
                   PROVE  program'[children[i]] = i
        BY <1>1 DEF IInv, SlotsHoldTheirScript
    <2>2. children[i] \in Pids /\ children[i] # kill
        BY <1>1, <1>5, <2>1 DEF IInv, Births, Pids, Released
    <2>3. QED BY <1>1, <1>2, <2>2, <2>1 DEF IInv, SlotsHoldTheirScript, TypeOK
<1>7. NoOrphans'
    BY <1>1, <1>2 DEF IInv, TypeOK, NoOrphans, Running, Apps, KillScript
<1>8. SimOffMeansNothingRuns'
    BY <1>1, <1>2 DEF IInv, TypeOK, SimOffMeansNothingRuns, Running, Apps, KillScript
<1>9. KillPendingIsWatched'
    <2>1. kill \notin receivers
        BY <1>1 DEF IInv, Births
    <2>2. \A p \in receivers : program[p] # KillScript
        BY <1>1 DEF IInv, KillPendingIsWatched, KillScriptsPending
    <2>3. KillScriptsPending' = {kill}
        BY <1>1, <1>2, <2>1, <2>2 DEF KillScriptsPending, IInv, TypeOK
    <2>4. QED BY <1>1, <2>3 DEF KillPendingIsWatched
<1>10. NoLostWakeup'
    BY <1>1, <1>2 DEF IInv, TypeOK, NoLostWakeup, Running
<1>11. QED BY <1>3, <1>4, <1>6, <1>7, <1>8, <1>9, <1>10 DEF IInv

LEMMA EndKeeps ==
    ASSUME IInv, PowerOffFails \/ EndsElsewhere PROVE IInv'
BY DEF IInv, PowerOffFails, EndsElsewhere, Idle, procVars, TypeOK, Sim!SimTypeOK, Births, SlotsHoldTheirScript, NoOrphans,
       SimOffMeansNothingRuns, KillPendingIsWatched, NoLostWakeup

LEMMA ProcessExitKeeps ==
    ASSUME IInv, NEW p \in Pids, ProcessExit(p) PROVE IInv'
<1>1. /\ status[p] = "running" /\ status' = [status EXCEPT ![p] = "zombie"] /\ sigchld'
      /\ up' = up /\ sim_started' = sim_started /\ processing_kill' = processing_kill
      /\ spawned' = spawned /\ program' = program /\ children' = children
      /\ receivers' = receivers /\ scan' = scan
    BY DEF ProcessExit, Running
<1>2. TypeOK'
    BY <1>1 DEF IInv, TypeOK, Sim!SimTypeOK
<1>3. Births'
    BY <1>1 DEF IInv, TypeOK, Births
<1>4. SlotsHoldTheirScript' /\ KillPendingIsWatched' /\ NoLostWakeup'
    BY <1>1 DEF IInv, SlotsHoldTheirScript, KillPendingIsWatched, KillScriptsPending, NoLostWakeup
<1>5. NoOrphans' /\ SimOffMeansNothingRuns'
    BY <1>1 DEF IInv, TypeOK, NoOrphans, SimOffMeansNothingRuns, Running
<1>6. QED BY <1>2, <1>3, <1>4, <1>5 DEF IInv

LEMMA ScanKeeps ==
    ASSUME IInv, ScanStart \/ \E p \in Pids : ScanAlive(p) PROVE IInv'
<1>1. CASE ScanStart
    <2>1. UNCHANGED <<up, sim_started, processing_kill, spawned, program, status, children, receivers>>
        BY <1>1 DEF ScanStart, procVars
    <2>2. TypeOK' /\ NoLostWakeup'
        BY <1>1, <2>1 DEF ScanStart, IInv, TypeOK, Sim!SimTypeOK, NoLostWakeup
    <2>3. QED
        BY <2>1, <2>2 DEF IInv, Births, SlotsHoldTheirScript, NoOrphans, Running,
            SimOffMeansNothingRuns, KillPendingIsWatched, KillScriptsPending
<1>2. ASSUME NEW p \in Pids, ScanAlive(p) PROVE IInv'
    <2>1. /\ UNCHANGED <<up, sim_started, processing_kill, spawned, program, status, children, receivers>>
          /\ status[p] = "running" /\ scan' = scan \ {p} /\ sigchld' = sigchld
        BY <1>2 DEF ScanAlive, procVars, Running
    <2>2. TypeOK' /\ NoLostWakeup'
        BY <2>1 DEF IInv, TypeOK, Sim!SimTypeOK, NoLostWakeup, Running
    <2>3. QED
        BY <2>1, <2>2 DEF IInv, Births, SlotsHoldTheirScript, NoOrphans, Running,
            SimOffMeansNothingRuns, KillPendingIsWatched, KillScriptsPending
<1>3. QED BY <1>1, <1>2

(* What a notice does to the tables it shares with every other notice.     *)
LEMMA ReapAllIsReaping ==
    ASSUME IInv, NEW S
    PROVE  /\ ReapAll(S) \in [Pids -> {"unborn", "running", "zombie", "reaped"}]
           /\ \A p \in Pids : /\ ReapAll(S)[p] = "unborn" <=> status[p] = "unborn"
                              /\ ReapAll(S)[p] = "running" <=> Running(p) /\ p \notin S
                              /\ ReapAll(S)[p] = "reaped" => p \in S \/ status[p] = "reaped"
BY DEF ReapAll, IInv, TypeOK, Running

LEMMA AppNoticeKeeps ==
    ASSUME IInv, NEW p \in Pids, AppNotice(p) PROVE IInv'
<1> DEFINE i == program[p]
           S == {p, children[i]}
<1>1. /\ up /\ up' /\ p \in scan /\ ~Running(p) /\ i \in Apps /\ i \in DOMAIN children
      /\ processing_kill' = processing_kill /\ sim_started' = sim_started
      /\ spawned' = spawned /\ program' = program
      /\ scan' = scan \ {p} /\ receivers' = receivers \ {p}
      /\ children' = [children EXCEPT ![i] = Released]
    BY DEF IInv, TypeOK, AppNotice, Notice, Visits, Apps
<1>2. /\ status' \in [Pids -> {"unborn", "running", "zombie", "reaped"}]
      /\ \A q \in Pids : /\ status'[q] = "unborn" <=> status[q] = "unborn"
                         /\ Running(q)' <=> Running(q) /\ q \notin S
    BY ReapAllIsReaping DEF AppNotice, Running
<1>3. /\ children' \in Seq(0..MaxProcs) /\ Len(children') = Len(children)
      /\ DOMAIN children' = DOMAIN children /\ children'[i] = Released
      /\ \A j \in DOMAIN children \ {i} : children'[j] = children[j]
    BY <1>1, SupervisorAssumption DEF IInv, TypeOK, Released
<1>4. sigchld' \in BOOLEAN /\ (sigchld => sigchld') /\ (children[i] \in Pids /\ Running(children[i]) => sigchld')
    BY DEF AppNotice, IInv, TypeOK
<1>5. TypeOK'
    BY <1>1, <1>2, <1>3, <1>4 DEF IInv, TypeOK, Sim!SimTypeOK
<1>6. Births'
    BY <1>1, <1>2, <1>3, SupervisorAssumption DEF IInv, TypeOK, Births, Released
<1>7. SlotsHoldTheirScript'
    <2>1. Len(children) >= NumApps
        BY <1>1 DEF IInv, SlotsHoldTheirScript
    <2>2. \A j \in Apps \cap DOMAIN children' : children'[j] # Released => program'[children'[j]] = j
        BY <1>1, <1>3 DEF IInv, SlotsHoldTheirScript
    <2>3. QED BY <1>3, <2>1, <2>2 DEF SlotsHoldTheirScript
<1>8. NoOrphans'
    BY <1>1, <1>2, <1>3 DEF IInv, NoOrphans
<1>9. SimOffMeansNothingRuns'
    BY <1>1, <1>2 DEF IInv, SimOffMeansNothingRuns
<1>10. KillPendingIsWatched'
    <2>1. KillScriptsPending' = KillScriptsPending
        BY <1>1 DEF KillScriptsPending, Apps, KillScript
    <2>2. QED BY <1>1, <2>1 DEF IInv, KillPendingIsWatched
<1>11. NoLostWakeup'
    <2>1. SUFFICES ASSUME NEW q \in receivers', ~Running(q)', ~sigchld' PROVE q \in scan'
        BY DEF NoLostWakeup
    <2>2. q \in Pids /\ q \in receivers /\ q # p
        BY <1>1, <2>1 DEF IInv, TypeOK
    <2>3. ~Running(q)
        BY <1>2, <1>4, <2>1, <2>2
    <2>4. QED BY <1>1, <1>4, <2>1, <2>2, <2>3 DEF IInv, NoLostWakeup
<1>12. QED BY <1>5, <1>6, <1>7, <1>8, <1>9, <1>10, <1>11 DEF IInv

LEMMA AppNoticePastEndKeeps ==
    ASSUME IInv, NEW p \in Pids, AppNoticePastEnd(p) PROVE IInv'
<1>1. /\ up /\ up' \in BOOLEAN /\ p \in scan /\ ~Running(p) /\ program[p] \in Apps
      /\ processing_kill' = processing_kill /\ sim_started' = sim_started
      /\ spawned' = spawned /\ program' = program /\ children' = children /\ sigchld' = sigchld
      /\ scan' = scan \ {p} /\ receivers' = receivers \ {p}
    BY DEF AppNoticePastEnd, Notice, Visits
<1>2. /\ status' \in [Pids -> {"unborn", "running", "zombie", "reaped"}]
      /\ \A q \in Pids : /\ status'[q] = "unborn" <=> status[q] = "unborn"
                         /\ Running(q)' <=> Running(q)
    BY <1>1, ReapAllIsReaping DEF AppNoticePastEnd, Running
<1>3. TypeOK' /\ Births' /\ SlotsHoldTheirScript'
    BY <1>1, <1>2 DEF IInv, TypeOK, Sim!SimTypeOK, Births, SlotsHoldTheirScript
<1>4. NoOrphans' /\ SimOffMeansNothingRuns'
    BY <1>1, <1>2 DEF IInv, NoOrphans, SimOffMeansNothingRuns
<1>5. KillPendingIsWatched'
    <2>1. KillScriptsPending' = KillScriptsPending
        BY <1>1 DEF KillScriptsPending, Apps, KillScript
    <2>2. QED BY <1>1, <2>1 DEF IInv, KillPendingIsWatched
<1>6. NoLostWakeup'
    BY <1>1, <1>2 DEF IInv, TypeOK, NoLostWakeup
<1>7. QED BY <1>3, <1>4, <1>5, <1>6 DEF IInv

LEMMA KillNoticeKeeps ==
    ASSUME IInv, NEW p \in Pids, KillNotice(p) PROVE IInv'
<1> DEFINE held == {children[j] : j \in DOMAIN children}
           S == {p} \cup held
<1>1. /\ up /\ up' /\ p \in scan /\ ~Running(p) /\ program[p] = KillScript
      /\ up' = up /\ processing_kill' = FALSE /\ sim_started' = FALSE
      /\ spawned' = spawned /\ program' = program /\ children' = << >>
      /\ scan' = scan \ {p} /\ receivers' = receivers \ {p}
    BY DEF KillNotice, Notice, Visits
<1>2. /\ status' \in [Pids -> {"unborn", "running", "zombie", "reaped"}]
      /\ \A q \in Pids : /\ status'[q] = "unborn" <=> status[q] = "unborn"
                         /\ Running(q)' <=> Running(q) /\ q \notin S
    BY ReapAllIsReaping DEF KillNotice, Running
<1>3. sigchld' \in BOOLEAN /\ (sigchld => sigchld') /\ \A q \in held \cap Pids : Running(q) => sigchld'
    BY DEF KillNotice, IInv, TypeOK
<1>4. TypeOK' /\ Births' /\ SlotsHoldTheirScript'
    <2>1. children' \in Seq(0..MaxProcs) /\ DOMAIN children' = {}
        BY <1>1, EmptySeq
    <2>2. TypeOK'
        BY <1>1, <1>2, <1>3, <2>1 DEF IInv, TypeOK, Sim!SimTypeOK
    <2>3. Births'
        BY <1>1, <1>2, <2>1 DEF IInv, Births
    <2>4. SlotsHoldTheirScript'
        BY <1>1, <2>1 DEF SlotsHoldTheirScript
    <2>5. QED BY <2>2, <2>3, <2>4
<1>5. \A q \in Pids : program'[q] \in Apps => ~Running(q)'
    BY <1>1, <1>2 DEF IInv, NoOrphans
<1>6. NoOrphans' /\ SimOffMeansNothingRuns'
    BY <1>5 DEF NoOrphans, SimOffMeansNothingRuns
<1>7. KillPendingIsWatched'
    <2>1. KillScriptsPending' = {}
        BY <1>1 DEF IInv, TypeOK, KillPendingIsWatched, KillScriptsPending
    <2>2. QED BY <1>1, <2>1 DEF KillPendingIsWatched
<1>8. NoLostWakeup'
    <2>1. SUFFICES ASSUME NEW q \in receivers', ~Running(q)', ~sigchld' PROVE q \in scan'
        BY DEF NoLostWakeup
    <2>2. q \in Pids /\ q \in receivers /\ q # p
        BY <1>1, <2>1 DEF IInv, TypeOK
    <2>3. ~Running(q)
        BY <1>2, <1>3, <2>1, <2>2
    <2>4. QED BY <1>1, <1>3, <2>1, <2>2, <2>3 DEF IInv, NoLostWakeup
<1>9. QED BY <1>4, <1>6, <1>7, <1>8 DEF IInv

-----------------------------------------------------------------------------
LEMMA InitEstablishesIInv == Init => IInv
<1> SUFFICES ASSUME Init PROVE IInv
    OBVIOUS
<1>1. children \in Seq(0..MaxProcs) /\ DOMAIN children = {}
    BY EmptySeq DEF Init
<1>2. TypeOK
    <2>1. Sim!SimTypeOK
        BY DEF Init, Sim!SimInit, Sim!SimTypeOK
    <2>2. spawned \in 0..MaxProcs
        BY SupervisorAssumption DEF Init
    <2>3. receivers \subseteq Pids /\ scan \subseteq receivers /\ sigchld \in BOOLEAN
        BY DEF Init
    <2>4. /\ program \in [Pids -> Apps \cup {KillScript}]
          /\ status \in [Pids -> {"unborn", "running", "zombie", "reaped"}]
        BY DEF Init
    <2>5. QED BY <1>1, <2>1, <2>2, <2>3, <2>4 DEF TypeOK
<1>3. Births
    BY <1>1, SupervisorAssumption DEF Init, Births, Pids
<1>4. SlotsHoldTheirScript /\ NoOrphans /\ SimOffMeansNothingRuns /\ KillPendingIsWatched /\ NoLostWakeup
    BY <1>1 DEF Init, Sim!SimInit, SlotsHoldTheirScript, NoOrphans, Running, SimOffMeansNothingRuns,
        KillPendingIsWatched, KillScriptsPending, NoLostWakeup
<1>5. QED BY <1>2, <1>3, <1>4 DEF IInv

LEMMA NextKeepsIInv == IInv /\ [Next]_vars => IInv'
<1> SUFFICES ASSUME IInv, [Next]_vars PROVE IInv'
    OBVIOUS
<1>1. CASE \E cfg \in 0..(NumConfigs - 1) : PowerOn(cfg) \/ \E k \in Apps : PowerOnFails(cfg, k)
    BY <1>1, PowerOnKeeps, PowerOnFailsKeeps
<1>2. CASE PowerOff \/ PowerOffFails \/ EndsElsewhere
    BY <1>2, PowerOffKeeps, EndKeeps
<1>3. CASE \E p \in Pids : ProcessExit(p)
    BY <1>3, ProcessExitKeeps
<1>4. CASE ScanStart \/ \E p \in Pids : ScanAlive(p)
    BY <1>4, ScanKeeps
<1>5. CASE \E p \in Pids : AppNotice(p) \/ AppNoticePastEnd(p) \/ KillNotice(p)
    BY <1>5, AppNoticeKeeps, AppNoticePastEndKeeps, KillNoticeKeeps
<1>6. CASE UNCHANGED vars
    BY <1>6 DEF vars, procVars, IInv, TypeOK, Sim!SimTypeOK, Births, SlotsHoldTheirScript, NoOrphans, Running,
        SimOffMeansNothingRuns, KillPendingIsWatched, KillScriptsPending, NoLostWakeup
<1>7. QED BY <1>1, <1>2, <1>3, <1>4, <1>5, <1>6 DEF Next

LEMMA SpecKeepsIInv == Spec => []IInv
BY InitEstablishesIInv, NextKeepsIInv, PTL DEF Spec

(* The state of the process table is well formed in every behaviour.       *)
THEOREM SupervisorTypeCorrect == Spec => []TypeOK
<1>1. IInv => TypeOK
    BY DEF IInv
<1>2. QED BY <1>1, SpecKeepsIInv, PTL

(* However STARTs, STOPs, exits and misdirected notices interleave, the    *)
(* server never loses sight of an application that runs.                   *)
THEOREM NothingRunsUnseen == Spec => []NoOrphans
<1>1. IInv => NoOrphans
    BY DEF IInv
<1>2. QED BY <1>1, SpecKeepsIInv, PTL

(* It never says "off" while an application runs.                          *)
THEOREM OffIsOff == Spec => []SimOffMeansNothingRuns
<1>1. IInv => SimOffMeansNothingRuns
    BY DEF IInv
<1>2. QED BY <1>1, SpecKeepsIInv, PTL

(* processing_kill always has one kill script behind it.                   *)
THEOREM KillHasItsScript == Spec => []KillPendingIsWatched
<1>1. IInv => KillPendingIsWatched
    BY DEF IInv
<1>2. QED BY <1>1, SpecKeepsIInv, PTL

(* The exit of no process is missed although SIGCHLDs coalesce.            *)
THEOREM ExitsStayVisible == Spec => []NoLostWakeup
<1>1. IInv => NoLostWakeup
    BY DEF IInv
<1>2. QED BY <1>1, SpecKeepsIInv, PTL

(* Every step of the supervisor is a step of SimLifecycle, or changes      *)
(* nothing its callers see.                                                *)
LEMMA NextRefines == IInv /\ [Next]_vars => [Sim!SimNext]_(Sim!simVars)
<1> SUFFICES ASSUME IInv, [Next]_vars PROVE [Sim!SimNext]_(Sim!simVars)
    OBVIOUS
<1> USE DEF Sim!SimNext, Sim!simVars
<1>1. ASSUME NEW cfg, PowerOn(cfg) PROVE Sim!PowerOn
    BY <1>1 DEF PowerOn, Idle, Sim!PowerOn
<1>2. ASSUME NEW cfg, NEW k, PowerOnFails(cfg, k) PROVE Sim!Abort
    BY <1>2 DEF PowerOnFails, Idle, Sim!Abort
<1>3. CASE PowerOff
    BY <1>3 DEF PowerOff, Idle, Sim!PowerOff
<1>4. CASE PowerOffFails \/ EndsElsewhere
    BY <1>4 DEF PowerOffFails, EndsElsewhere, Idle, Sim!Abort
<1>5. ASSUME NEW p, ProcessExit(p) \/ ScanAlive(p) \/ AppNotice(p) PROVE UNCHANGED Sim!simVars
    BY <1>5 DEF ProcessExit, ScanAlive, AppNotice
<1>6. CASE ScanStart
    BY <1>6 DEF ScanStart
<1>7. ASSUME NEW p, AppNoticePastEnd(p) PROVE Sim!Abort \/ UNCHANGED Sim!simVars
    BY <1>7 DEF AppNoticePastEnd, Notice, Visits, Sim!Abort
<1>8. ASSUME NEW p \in Pids, KillNotice(p) PROVE Sim!KillExit
    <2>1. p \in KillScriptsPending
        BY <1>8 DEF KillNotice, Notice, Visits, IInv, TypeOK, KillScriptsPending
    <2>2. up /\ processing_kill
        BY <1>8, <2>1 DEF KillNotice, Notice, Visits, IInv, KillPendingIsWatched
    <2>3. QED BY <1>8, <2>2 DEF KillNotice, Sim!KillExit
<1>9. CASE UNCHANGED vars
    BY <1>9 DEF vars
<1>10. QED BY <1>1, <1>2, <1>3, <1>4, <1>5, <1>6, <1>7, <1>8, <1>9 DEF Next

(* The safety part of ImplementsSimLifecycle, for every instance: the      *)
(* supervisor's behaviours are behaviours of the abstract life cycle.      *)
THEOREM SupervisorRefinesSimLifecycle == Spec => Sim!SimInit /\ [][Sim!SimNext]_(Sim!simVars)
<1>1. Init => Sim!SimInit
    BY DEF Init
<1>2. QED BY <1>1, NextRefines, SpecKeepsIInv, PTL DEF Spec

(* An application is killed by the clean-up of a STOP or by the notice of  *)
(* another instance of the same application, in every instance.            *)
THEOREM CollateralStaysInTheFamily == Spec => KilledBySiblingOrStop
<1> DEFINE Kin(p) == Running(p) /\ program[p] \in Apps /\ status'[p] = "reaped" =>
                        \/ processing_kill /\ ~processing_kill'
                        \/ \E q \in receivers \ receivers' : q # p /\ program[q] = program[p]
<1>1. IInv /\ [Next]_vars => [\A p \in Pids : Kin(p)]_vars
    <2> SUFFICES ASSUME IInv, Next, NEW p \in Pids, Running(p), program[p] \in Apps, status'[p] = "reaped"
                 PROVE  \/ processing_kill /\ ~processing_kill'
                        \/ \E q \in receivers \ receivers' : q # p /\ program[q] = program[p]
        OBVIOUS
    <2>1. ASSUME NEW n, NEW prog, Start(n, prog) PROVE FALSE
        BY <2>1 DEF Start, Running
    <2>2. ASSUME NEW q \in Pids, ProcessExit(q) PROVE FALSE
        BY <2>2 DEF ProcessExit, Running, IInv, TypeOK
    <2>3. ASSUME UNCHANGED status PROVE FALSE
        BY <2>3 DEF Running
    <2>4. ASSUME NEW q \in Pids, AppNotice(q) PROVE \E r \in receivers \ receivers' : r # p /\ program[r] = program[p]
        <3>1. q \in receivers \ receivers' /\ q # p /\ program[q] \in Apps /\ program[q] \in DOMAIN children
            BY <2>4 DEF AppNotice, Notice, Visits, IInv, TypeOK, Apps
        <3>2. children[program[q]] = p
            BY <2>4, <3>1, ReapAllIsReaping DEF AppNotice, Running
        <3>3. up /\ p # Released
            BY <2>4 DEF AppNotice, Notice, Visits, Pids, Released
        <3>4. QED BY <3>1, <3>2, <3>3 DEF IInv, SlotsHoldTheirScript
    <2>5. ASSUME NEW q \in Pids, AppNoticePastEnd(q) PROVE FALSE
        BY <2>5, ReapAllIsReaping DEF AppNoticePastEnd, Notice, Running
    <2>6. ASSUME NEW q \in Pids, KillNotice(q) PROVE processing_kill /\ ~processing_kill'
        BY <2>6 DEF KillNotice, Notice, Visits, IInv, TypeOK, KillPendingIsWatched, KillScriptsPending
    <2>7. QED
        BY <2>1, <2>2, <2>3, <2>4, <2>5, <2>6
        DEF Next, PowerOn, PowerOnFails, PowerOff, PowerOffFails, EndsElsewhere, ScanStart, ScanAlive, procVars
<1>2. QED BY <1>1, SpecKeepsIInv, PTL DEF Spec, KilledBySiblingOrStop

=============================================================================
