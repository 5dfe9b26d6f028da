CONSTANTS
  Machines = {m1, m2}
  Snapshots = {s1}
  MaxOps = 3
SPECIFICATION Spec
INVARIANTS CleanBetweenOperations CrashesInTwoPlaces SuccessIsReal
PROPERTY OperationEnds
CHECK_DEADLOCK FALSE
