CONSTANTS
    Proxies = {d, p1, p2, p3}
    Display = d
    FirstServerID = 4
    MaxID = 5
SPECIFICATION Spec
SYMMETRY ProxySymmetry
INVARIANTS
    TypeOK
    FreeListSound
    IdentityAgrees
PROPERTIES
    OnlyZombiesReplaced
    RefinesIDLifecycle
