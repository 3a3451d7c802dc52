SPECIFICATION Spec
CONSTANTS
    NumIfaces = 2
    Configs <- MCConfigs
    Signals = {"SIGTERM", "SIGINT"}
    MaxMishaps = 1
CONSTRAINT RestartsUndisturbed
INVARIANTS
    TypeOK
    MarkedIsRouted
    RulesInForce
    RebuildIsPrefix
    OneHook
    ShutdownCleans
PROPERTIES
    StopEnds
CHECK_DEADLOCK FALSE
