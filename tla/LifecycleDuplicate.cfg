CONSTANTS
    Proxies = {d, p1, p2, p3}
    Display = d
    FirstServerID = 3
    MaxID = 4
    Creatable = {"device"}
    Introducible = {"offer"}
    MaxInFlight = 1
    Rogue = TRUE
    Oversize = FALSE
    Binds = FALSE
SPECIFICATION Spec
SYMMETRY ProxySymmetry
PROPERTIES
    LiveDuplicateIsFatal
CHECK_DEADLOCK FALSE
