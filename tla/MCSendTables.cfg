SPECIFICATION Spec
CONSTANTS
    Props <- MCProps
    MaxProps = 0
    Recordings <- MCRecordings
INVARIANTS
    TypeOK
    GatheredAsSent
    LookupsAgree
    SoundIsParsed
CHECK_DEADLOCK FALSE
