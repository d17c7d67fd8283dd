SPECIFICATION Spec
CONSTANTS
    m = m
    e = e
    Management = m
    ExtensionHosts <- OnlyHost
    Opened <- Both
    CanDispose <- OnlyManagement
    MAX_ATTEMPTS = 1
    MaxSockets = 3
    MaxFaults = 2
INVARIANTS TypeOK GraceOnlyWhenDisconnected ConnectedIsServed
PROPERTIES EventOrder
CHECK_DEADLOCK FALSE
