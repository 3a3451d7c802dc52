SPECIFICATION Spec
CONSTANTS
    BufferSize = 6
    MaxThreshold = 7
    MaxStreak = 13
INVARIANTS
    TypeOK
    DetectionBound
    RecoveryBound
PROPERTIES
    FailureNeedsStreak
    ReportsExactlyChanges
    ImplementsPolicy
