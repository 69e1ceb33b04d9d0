CONSTANTS
    Requests <- ShippedRequests
    Lengths <- TestLengths
SPECIFICATION Spec
INVARIANTS
    BufferIsExactlyFilled
    SizeFieldIsHonest
    ZombieWasAnnounced
