SPECIFICATION LiveSpec
CONSTANTS
    MaxCalls = 4
    MaxEvents = 1
INVARIANTS
    TypeOK
    OneSaveAtATime
    ConflictAndErrorAreDirty
PROPERTIES
    SaveClearsWhatItWrote
    NoConflictAfterSuccess
    SaveIsHonoured
CHECK_DEADLOCK FALSE
