SPECIFICATION ReferencesSpec
CONSTANTS
    MaxRefs = 2
    MaxCoreRefs = 3
    Families <- MCFamilies
    Worlds <- MCWorlds
INVARIANTS
    ReferencesReachTheirSymbols
    LoaderWritesOnce
    AcceptedPlansAreCarriedOut
