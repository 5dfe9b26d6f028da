------------------------ MODULE SaveAndRestoreScreen ------------------------
(***************************************************************************)
(* The screen on which a machine and one of its snapshots are chosen, to   *)
(* be restored (save_and_restore_screen.dart).  It remembers both by their *)
(* indices, and checks these against the lists each time it is built.      *)
(*                                                                         *)
(* Flutter builds the screen in the next frame after something it looks at *)
(* has changed, hence between any two elements of the lists.  The user is  *)
(* assumed to act on what the last frame shows.  A build that throws shows *)
(* an error in the place of the screen.                                    *)
(***************************************************************************)
EXTENDS VMListView

VARIABLES
    open,           \* the screen is the one on top
    chosenValue,    \* index of a machine, or Null
    selectedRow,    \* index of a snapshot, -1 (unselected again) or Null
    saved,          \* StateMaintained: both, kept while the screen is closed
    dirty,          \* something changed since the last build
    intact          \* the last build did not throw

choice == <<chosenValue, selectedRow>>
screenVars == <<open, choice, saved, dirty, intact>>
vars == <<viewVars, screenVars>>

(* Dart's indices begin with 0; an element that is not there throws.       *)
OrZero(index) == IF index = Null THEN 0 ELSE index
Has(list, index) == index \in 0..Len(list) - 1
At(list, index) == list[index + 1]

Chosen == (0..MaxVMs - 1) \cup {Null}
Selected == (-1..MaxSnaps - 1) \cup {Null}

ScreenTypeOK ==
    /\ TypeOK
    /\ open \in BOOLEAN
    /\ chosenValue \in Chosen
    /\ selectedRow \in Selected
    /\ saved \in Chosen \X Selected
    /\ dirty \in BOOLEAN
    /\ intact \in BOOLEAN

Init ==
    /\ ViewInit
    /\ open = FALSE
    /\ chosenValue = Null
    /\ selectedRow = Null
    /\ saved = <<Null, Null>>
    /\ dirty = FALSE
    /\ intact = FALSE

-----------------------------------------------------------------------------
snapList == snapLists["snapNamesPort"]
snapDescList == snapLists["snapDescPort"]

(* Broken variant of MachineIsGone: what is chosen may be one too far.     *)
MachineIsGoneOffByOne(c) ==
    OrZero(c) > Len(vmList) \/ vmRunningList = Null \/ Len(vmList) # Len(vmRunningList)

(* The sanity check of the machine.                                        *)
MachineIsGone(c) ==
    OrZero(c) >= Len(vmList) \/ vmRunningList = Null \/ Len(vmList) # Len(vmRunningList)

(* Broken variant of RowIsGone: only a row that has been selected counts,  *)
(* and it may be one too far.                                              *)
RowIsGoneOffByOne(c, r) == OrZero(r) > Len(At(snapList, c)) \/ Len(vmList) # Len(snapList)

(* The sanity check of the row.                                            *)
RowIsGone(c, r) == OrZero(r) >= Len(At(snapList, c)) \/ Len(vmList) # Len(snapList)

(* The checks themselves may throw, for snapList may be the shorter one.   *)
CheckThrows == ~MachineIsGone(chosenValue) /\ chosenValue # Null /\ ~Has(snapList, chosenValue)

Checked ==
    IF MachineIsGone(chosenValue) THEN <<Null, Null>>
    ELSE IF chosenValue # Null /\ RowIsGone(chosenValue, selectedRow) THEN <<chosenValue, Null>>
    ELSE choice

(* The rows of the table, for a choice that has been checked: none while   *)
(* the snapshots are those of other machines, otherwise the snapshots of   *)
(* the chosen machine, or of the first.                                    *)
NoRows(c) == Len(snapList) # Len(vmList) /\ c # Null
Rows(c) == IF NoRows(c) THEN 0 ELSE Len(At(snapList, OrZero(c)))

StatusThrows(c) == vmRunningList # Null /\ ~Has(vmRunningList, OrZero(c))
TableThrows(c) ==
    /\ ~NoRows(c)
    /\ \/ ~Has(snapList, OrZero(c))
       \/ /\ Rows(c) > 0
          /\ \/ ~Has(snapDescList, OrZero(c))
             \/ Rows(c) > Len(At(snapDescList, OrZero(c)))

Choice(pair) == chosenValue' = pair[1] /\ selectedRow' = pair[2]

(* build: the choice is checked and remembered, then the widgets are made. *)
Build ==
    /\ open /\ dirty
    /\ dirty' = FALSE
    /\ IF CheckThrows
       THEN intact' = FALSE /\ UNCHANGED <<choice, saved>>
       ELSE /\ Choice(Checked)
            /\ saved' = Checked
            /\ intact' = ~(StatusThrows(Checked[1]) \/ TableThrows(Checked[1]))
    /\ UNCHANGED <<viewVars, open>>

-----------------------------------------------------------------------------
(* The user.                                                               *)

(* The button of the home screen, for who is in control, hence connected.  *)
Open ==
    /\ ~open /\ serverConnected
    /\ open' = TRUE
    /\ Choice(saved)
    /\ dirty' = TRUE
    /\ intact' = FALSE
    /\ UNCHANGED <<viewVars, saved>>

(* The user goes back, or a build without connection or control pops it.   *)
Close ==
    /\ open
    /\ open' = FALSE
    /\ Choice(<<Null, Null>>)
    /\ dirty' = FALSE
    /\ intact' = FALSE
    /\ UNCHANGED <<viewVars, saved>>

OnScreen == open /\ ~dirty /\ intact

(* Another machine is chosen; the selected row stays.                      *)
ChooseMachine ==
    /\ OnScreen
    /\ \E index \in 0..Len(vmList) - 1 : index # chosenValue /\ chosenValue' = index
    /\ dirty' = TRUE
    /\ UNCHANGED <<viewVars, open, selectedRow, saved, intact>>

(* Broken variant of SelectRow: rows are counted from 1.                   *)
SelectRowOneBased ==
    /\ OnScreen
    /\ \E index \in 1..Rows(chosenValue) :
           selectedRow' = IF selectedRow = index THEN -1 ELSE index
    /\ dirty' = TRUE
    /\ UNCHANGED <<viewVars, open, chosenValue, saved, intact>>

(* A row is selected, or unselected if it was.                             *)
SelectRow ==
    /\ OnScreen
    /\ \E index \in 0..Rows(chosenValue) - 1 :
           selectedRow' = IF selectedRow = index THEN -1 ELSE index
    /\ dirty' = TRUE
    /\ UNCHANGED <<viewVars, open, chosenValue, saved, intact>>

-----------------------------------------------------------------------------
(* What is heard has the screen built again if it changes what the screen  *)
(* looks at.                                                               *)
View ==
    /\ ViewNext
    /\ dirty' = (open /\ (dirty \/ published' # published))
    /\ UNCHANGED <<open, choice, saved, intact>>

Next == View \/ Open \/ Close \/ Build \/ ChooseMachine \/ SelectRow

Spec == Init /\ [][Next]_vars

-----------------------------------------------------------------------------
(* The restore button: enabled if a row is selected, it names the machine  *)
(* and the snapshot to the backend.                                        *)
RestoreEnabled == OnScreen /\ (IF selectedRow = Null THEN -1 ELSE selectedRow) >= 0
RestoreInRange ==
    /\ Has(vmList, OrZero(chosenValue))
    /\ Has(snapList, OrZero(chosenValue))
    /\ Has(At(snapList, OrZero(chosenValue)), OrZero(selectedRow))
RestoredVM == At(vmList, OrZero(chosenValue))
RestoredSnap == At(At(snapList, OrZero(chosenValue)), OrZero(selectedRow))

Settled == inbox = << >>

(* Once a VM_LIST with machines in it has been heard and nothing is on its *)
(* way, the screen is built without an error, whatever was chosen before   *)
(* the lists changed, before the connection was lost, or before the screen *)
(* was closed.                                                             *)
SettledScreenIsBuilt == open /\ ~dirty /\ Settled /\ due.snaps # 0 => intact

(* What is restored then is a snapshot of the very machine that is named,  *)
(* both of the last VM_LIST, provided that the machine has been chosen     *)
(* (and is not the one that is shown because none is chosen).              *)
SettledRestoreIsExact ==
    RestoreEnabled /\ Settled /\ chosenValue # Null =>
        /\ RestoreInRange
        /\ RestoredVM = <<due.machines, chosenValue + 1>>
        /\ RestoredSnap = <<due.snaps, chosenValue + 1, selectedRow + 1>>
        /\ due.machines = due.snaps

(* Expected to be violated: a choice that passes the sanity check ("chosen *)
(* value was good") is good for all that the build goes on to index.       *)
SanityCheckSuffices ==
    open /\ dirty /\ ~MachineIsGone(chosenValue) =>
        ~(CheckThrows \/ StatusThrows(Checked[1]) \/ TableThrows(Checked[1]))

(* Expected to be violated: it is good for the restore button, too, even   *)
(* when nothing is on its way.                                             *)
RestoreIsInRange == RestoreEnabled /\ Settled => RestoreInRange
=============================================================================
