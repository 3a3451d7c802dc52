SPECIFICATION Spec
CONSTANTS
    NumIfaces = 2
    TestColls <- MCTestColls
    Dhcp = {1}
    PingIds = 4
    MinPort = 4
    MaxPort = 7
    SelectTimeout = 2
    Window = 3
    RespTime = 2
    MaxInFlight = 2
PROPERTIES
    CycleEnds
