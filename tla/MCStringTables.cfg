SPECIFICATION Spec
CONSTANTS
    Letters = {1, 2}
    Strings <- MCStrings
    Tables <- MCTables
    UserDataSizes = {5, 6}
    MAX_STRING_TABLES = 2
    HistorySize = 2
    HistoryLength = 2
    MaxCreated = 3
    MaxSent = 3
INVARIANTS
    TypeOK
    SameHistory
    EntryAsSent
    SameTables
    ReadToItsEnd
