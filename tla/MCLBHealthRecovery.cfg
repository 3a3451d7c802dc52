SPECIFICATION Spec
CONSTANTS
    BufferSize = 6
    MaxThreshold = 7
    MaxStreak = 13
PROPERTIES
    RecoveryNeedsStreak
