SPECIFICATION Spec
CONSTANTS
    a1 = a1
    a2 = a2
    gw1 = gw1
    gw10 = gw10
    None = None
    Addrs <- MCAddrs
    Hops <- MCHops
    Contained <- MCContained
    Outcomes = {"done", "failed", "lost"}
    MaxChanges = 2
    MaxFaults = 2
    MaxRules = 3
INVARIANTS
    TypeOK
    OneRuleForAddress
PROPERTIES
    
    RouteFollows
    CheckIsHonoured
CHECK_DEADLOCK FALSE
