SPECIFICATION Spec
CONSTANTS
    Bit <- MCBit
    Zero = 0
    MaxBytes = 9
    Sizes = {1, 3, 4, 6, 9}
    Contents <- MCContents
    Widths = {1, 8, 17, 32}
    SeekTargets <- MCSeekTargets
INVARIANTS
    FetchInBounds
    PrefetchCurrent
PROPERTIES
    ImplementsBitStream
