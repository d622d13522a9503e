SPECIFICATION CommandLineSpec
CONSTANTS
    MaxFree = 3
    MaxInGroup = 3
    MaxInputs = 3
    MaxSearch = 3
    Paths <- MCPaths
    Names <- MCNames
    Units <- MCUnits
    BadUnits <- MCBadUnits
    Symbols <- MCSymbols
    Content <- MCContent
    Sequences <- MCSequences
    ForcedSets <- MCForced
    ArgumentLists <- MCArgumentLists
    Commands <- MCCommands
    CrtStartup = "<crt>"
    Missing = "gone"
    Directories <- MCDirectories
    CommandLines <- MCCommandLines
    Absolute <- MCAbsolute
    Addresses <- MCAddresses
    Scripts <- MCScripts
    VersionScripts <- MCVersionScripts
INVARIANTS
    BookkeepingIsExact
    ScanAgreesWithCaller
    ExtractedOnlyOnDemand
    ScannedArchiveIsExhausted
    LoadedAsWritten
    GroupIsExhausted
    AcceptedLinesMeanWhatTheySay
    LibrariesAreFoundInOrder
PROPERTIES
    ImplementsClosure
    EveryLinkEnds
