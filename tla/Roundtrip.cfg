SPECIFICATION FairSpec
CONSTANTS
    Proxies = {display, c1, c2}
    Display = display
    FirstServerID = 4
    MaxID = 4
    Requests = {r1}
    Unasked = unasked
    MaxDepth = 4
INVARIANTS
    TypeOK
    AbandonedIDsComeBack
PROPERTIES
    ImplementsBarrier
    RoundtripReturns
CHECK_DEADLOCK FALSE
