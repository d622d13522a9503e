SPECIFICATION BothSpec
CONSTANTS
    MaxOne = 4
    MaxTwo = 3
    MaxDefining = 5
    Names <- MCNames
    NoName = ""
    Streams <- MCStreams
    ForcedLists <- MCForcedLists
    MarkSets <- MCMarkSets
    CutsOf <- MCCutsOf
    NameOrder <- MCNameOrder
    SizeLimit = 12
INVARIANTS
    BoundByRank
    CommonsDoNotOverlap
    OutputStandsForInputs
    PartialIsTransparent
