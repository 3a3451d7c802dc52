SPECIFICATION Spec
CONSTANTS
    NumIfaces = 4
    Weights = {0, 1, 2, 3, 4}
    DropBelow = 5
CHECK_DEADLOCK FALSE
INVARIANTS
    TypeOK
    SharesMatchWeights
    OnlyActiveServed
    ProbabilitiesValid
    UsableIsServed
    FailoverIsExclusive
    TwoWayFailover
