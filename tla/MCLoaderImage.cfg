CONSTANTS
    DebugAssertions = TRUE
    Page = 64
    MetadataSize = 40
    InterpSize = 28
    NoteSize = 32
    Links <- LinkSets
SPECIFICATION ImageSpec
INVARIANT ConstructorsRunByPriority
INVARIANT EveryFunctionRunsOnce
INVARIANT EntriesReachTheirSymbols
INVARIANT SealedIffStartupOnly
