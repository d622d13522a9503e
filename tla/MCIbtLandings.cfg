CONSTANTS
    DebugAssertions = TRUE
    Page = 64
    MetadataSize = 40
    InterpSize = 28
    NoteSize = 32
    Links <- IbtLinks
SPECIFICATION ImageSpec
INVARIANT LandingsAreMarked
