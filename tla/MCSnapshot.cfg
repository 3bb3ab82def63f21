SPECIFICATION SnapshotSpec
CONSTANTS
    MaxSlot = 2
    Users = {1, 258, 65539}
    Bots = {258}
    TablesBefore <- MCTablesBefore
    ClientSide <- MCClientSide
    TablesBehind <- MCTablesBehind
    NameSize = 6
    StringLimit = 4
    BufferBytes = 124
INVARIANTS
    AssertionsHold
PROPERTIES
    ImplementsPlayers
    EndsInStep
CHECK_DEADLOCK FALSE
