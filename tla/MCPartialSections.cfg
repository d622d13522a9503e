SPECIFICATION SectionsSpec
CONSTANTS
    Names <- MCNames
    NoName = ""
    Streams <- MCStreams
    ForcedLists = {}
    MarkSets = {}
    SectionNames <- MCSectionNames
    CanonicalNames <- MCCanonical
    Inputs <- MCInputs
    Limit = 32
INVARIANTS
    BytesKeepTheirMeaning
    GroupsStayWhole
