CONSTANTS
    Numbers = {1, 2, 3, 4}
SPECIFICATION Spec
INVARIANTS
    TypeOK
    DescriptorsHaveOwners
    NameIsNeverStale
PROPERTIES
    OthersAreLeftAlone
