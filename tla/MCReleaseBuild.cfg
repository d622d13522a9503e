CONSTANTS
    DebugAssertions = FALSE
    Page = 64
    MetadataSize = 40
    InterpSize = 28
    NoteSize = 32
    Links <- LifecycleLinks
SPECIFICATION ImageSpec
INVARIANT ConstructorsRunByPriority
