SPECIFICATION Spec
CONSTANTS
    m = m
    e = e
    Management = m
    ExtensionHosts <- OnlyHost
    Opened <- Both
    CanDispose <- Nobody
    MAX_ATTEMPTS = 1
    MaxSockets = 2
    MaxFaults = 2
INVARIANT FailureReachesAll
CHECK_DEADLOCK FALSE
