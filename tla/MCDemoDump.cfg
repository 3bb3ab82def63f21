SPECIFICATION Spec
CONSTANTS
    Frames <- MCFrames
    LastFrames <- MCLastFrames
    Recordings <- MCRecordings
    MaxFrames = 2
    MaxCut = 2
    Known = {0, 1, 4, 26}
    PayloadMax = 10
    BufferMax = 4
    SeekLimit = 16
    Garbage <- MCGarbage
INVARIANTS
    TypeOK
    InStep
    FailsOnlyIfDamaged
PROPERTIES
    Terminates
    ImplementsReplay
