SPECIFICATION EventsSpec
CONSTANTS
    MaxSlot = 1
    Users = {1, 2}
    Bots = {2}
    Commands <- MCCommands
    AbsolutePaths = {"/demo", "/other"}
    Files <- MCFiles
    EventLists <- MCEventLists
    Updates <- MCUpdates
INVARIANTS
    EventsTypeOK
    OpensTheFile
    Understood
    DeathsAsAsked
    EventsAsAsked
    ShownIsHis
    RightSlot
    GoneUnknown
CHECK_DEADLOCK FALSE
