CONSTANTS
    Scripts <- ShortScripts
    MaxNesting = 2
SPECIFICATION FairSpec
INVARIANTS
    TypeOK
    DescriptorsAccountedFor
    DescriptorReachesItsEvent
    StopsAtFrameBoundary
PROPERTIES
    EveryFrameDispatched
