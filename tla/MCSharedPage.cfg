SPECIFICATION LayoutSpec
CONSTANTS
    MaxFree = 2
    MaxWritable = 3
    Page = 8
    EhdrSize = 3
    PhdrSize = 2
    Word = 2
    AddressLimit = 96
    Bases <- MCBases
    SectionLists <- MCSectionLists
INVARIANTS
    NobitsReadAsZero
