CONSTANTS
    Proxies = {d, p1, p2, p3}
    Display = d
    FirstServerID = 5
    MaxID = 5
    Creatable = {"surface", "global"}
    Introducible = {}
    MaxInFlight = 2
    Rogue = FALSE
    Oversize = TRUE
    Binds = FALSE
SPECIFICATION Spec
SYMMETRY ProxySymmetry
INVARIANTS
    RefusalLeavesConnectionUsable
CHECK_DEADLOCK FALSE
