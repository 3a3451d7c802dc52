SPECIFICATION Spec
CONSTANTS
    NumIfaces = 1
    Configs <- MCConfigs
    Signals = {"SIGTERM"}
    MaxMishaps = 0
PROPERTIES
    RestartEndsRunning
CHECK_DEADLOCK FALSE
