CONSTANTS
    Proxies = {d, p1, p2, p3, p4}
    Display = d
    FirstServerID = 4
    MaxID = 5
    Creatable = {"device"}
    Introducible = {"offer", "pad"}
    MaxInFlight = 2
    Rogue = FALSE
    Oversize = FALSE
    Binds = FALSE
SPECIFICATION Spec
SYMMETRY ProxySymmetry
INVARIANTS
    ConformingPeersNeverFail
    EventFindsItsObject
    ArgumentNeverStrays
