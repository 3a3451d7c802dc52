SPECIFICATION Spec
CONSTANTS
    Starts <- MCStarts
    Moves <- MCMoves
    Settings <- MCSettings
    RespTimes = {1000, 1500, 5000}
    MaxMoves = 3
    IntHalf = 200000000
    UInt = 250000
    ULong = 1000000
INVARIANTS
    TypeOK
    VerdictExact
PROPERTIES
    AgesShown
