SPECIFICATION Spec
CONSTANTS
    MaxCalls = 3
    MaxEvents = 1
INVARIANT CleanIsOnDisk
CHECK_DEADLOCK FALSE
