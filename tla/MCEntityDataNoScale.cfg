SPECIFICATION Spec
CONSTANTS
    Messages <- OfNoScale
    Cuts = {0}
    flattenedProps <- MCflattenedProps
    s_nServerClassBits = 2
    Present <- MCPresent
    MaxFields = 3
INVARIANT
    NoScaleAsIs
