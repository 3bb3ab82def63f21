SPECIFICATION Spec
CONSTANTS
    Frames <- CustomFrames
    LastFrames <- OnlyStop
    Recordings <- MCRecordings
    MaxFrames = 2
    MaxCut = 0
    Known = {0, 1, 4, 26}
    PayloadMax = 10
    BufferMax = 4
    SeekLimit = 16
    Garbage <- MCGarbage
INVARIANTS
    EveryMessageDumped
