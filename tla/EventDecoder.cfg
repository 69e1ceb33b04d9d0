CONSTANTS
    Events <- AllEvents
    Lengths = {0, 1, 5, 1000}
    MaxWords = 12
    SigLetters = {"u", "?o", "n", "s", "?s", "a", "h"}
    MaxArgs = 3
SPECIFICATION Spec
INVARIANTS
    TypeOK
    TableAgrees
    ValidEventIsReadInPlace
    HandlerSeesOnlyTheBody
    DescriptorFollowsSignature
    IntroducedObjectsAreKnown
