SPECIFICATION Spec
CONSTANTS
    Ranges <- MCRanges
    Size <- MCSize
    Alignment <- MCAlignment
    TotalSize = 8
    Reserved <- MCReserved
    MaxRequest = 2
INVARIANTS TypeOK LiveRangesDisjoint FreeSpaceExact Aligned
PROPERTY CanAllocRestores
