SPECIFICATION Spec
CONSTANTS
    Messages <- MCMessages
    Cuts = {0, 1, 3}
    flattenedProps <- MCflattenedProps
    s_nServerClassBits = 2
    Present <- MCPresent
    MaxFields = 3
INVARIANTS
    TypeOK
    ReadAsSent
    InStep
    AssertionsHold
PROPERTIES
    EndIsRead
    WholeIsRead
