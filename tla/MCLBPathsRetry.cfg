SPECIFICATION Spec
CONSTANTS
    a1 = a1
    a2 = a2
    gw1 = gw1
    gw10 = gw10
    None = None
    Addrs <- MCAddrs
    Hops <- MCHops
    Contained <- MCContained
    Outcomes = {"done", "failed"}
    MaxChanges = 1
    MaxFaults = 1
    MaxRules = 3
PROPERTIES
    RetriesUntilRecorded
CHECK_DEADLOCK FALSE
