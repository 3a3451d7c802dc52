SPECIFICATION Spec
CONSTANTS
    NumIfaces = 3
    Weights = {1, 2, 3}
    DropBelow = 100
CHECK_DEADLOCK FALSE
INVARIANTS
    FailoverPicksHighest
