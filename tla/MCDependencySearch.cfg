CONSTANTS
    Tree <- MCTree
    Links <- MCLinks
    Disk <- MCDisk
    Cwd <- MCCwd
    Images <- MCImages
    Lookups <- MCLookups
    Threads <- MCThreads
    Schedules <- MCSchedules
SPECIFICATION SearchSpec
INVARIANTS
    RequirementsFollowScope
    LookupsFollowTheLoader
    EachCallHasItsOwnEnvironment
PROPERTIES
    EverySearchEnds
