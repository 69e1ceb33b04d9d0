CONSTANTS
    Proxies = {d, p1, p2, p3}
    Display = d
    FirstServerID = 4
    MaxID = 4
    Creatable = {"surface", "callback", "global"}
    Introducible = {}
    MaxInFlight = 2
    Rogue = FALSE
    Oversize = FALSE
    Binds = TRUE
SPECIFICATION FairSpec
INVARIANTS
    TypeOK
    ConformingPeersNeverFail
    AgreementAtRest
PROPERTIES
    ZombiesAreReclaimed
