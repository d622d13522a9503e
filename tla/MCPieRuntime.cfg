CONSTANTS
    Word = 2
    BitmapSlots = 3
    Page = 6
    Names <- MCNames
    Kind <- MCKind
    Links <- MCLinks
SPECIFICATION PieSpec
INVARIANTS
    RelocatedExactlyOnce
    ResolversRunRelocated
    OnlyTheGotIsSealed
    InspectorListsTargets
