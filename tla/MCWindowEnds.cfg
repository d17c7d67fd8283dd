SPECIFICATION FairSpec
CONSTANTS
    m = m
    e = e
    Management = m
    ExtensionHosts <- OnlyHost
    Opened <- Both
    CanDispose <- OnlyHost
    MAX_ATTEMPTS = 1
    MaxSockets = 3
    MaxFaults = 1
PROPERTIES LoopEnds AbandonedIsReleased
CHECK_DEADLOCK FALSE
