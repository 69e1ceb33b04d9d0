CONSTANTS
    N = 3
    MaxUnits = 3
    MaxRights = 2
SPECIFICATION Spec
INVARIANTS
    TypeOK
    StreamIsFramed
    ResultIsHonest
    RightsTravelOnce
CHECK_DEADLOCK FALSE
