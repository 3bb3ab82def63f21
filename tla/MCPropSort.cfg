SPECIFICATION SortSpec
CONSTANTS
    Props <- MCProps
    MaxProps = 4
INVARIANTS
    Permuted
    Sorted
PROPERTY
    SortEnds
CHECK_DEADLOCK FALSE
