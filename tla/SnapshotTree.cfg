CONSTANT MaxNodes = 5
SPECIFICATION TreeSpec
INVARIANTS EveryoneOnce BranchesStayTogether
CHECK_DEADLOCK FALSE
