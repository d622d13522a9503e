CONSTANTS
    Hash <- MCHash
    BloomBits = 16
    BloomShift = 2
    Versions <- MCVersions
    Files <- MCFiles
    Matches <- MCMatches
    Links <- MCLinks
    Sessions <- MCSessions
    OwnOptions <- MCOwnOptions
    Limit8 = 64
    Limit16 = 256
    Limit32 = 1024
    Limit64 = 4096
SPECIFICATION InspectionSpec
INVARIANTS
    BothHashesFindEverySymbol
    VersionIndicesAgree
    ConsumersSeeTheExports
    ReportsMatchTheLoader
    CopiesAgree
    OwnImagesAreRead
