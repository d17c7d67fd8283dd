SPECIFICATION LiveSpec
CONSTANTS
    Keys = {k1}
    Values = {v1}
    NoValue = undefined
    Windows = {w1, w2}
    MaxChanges = 3
INVARIANTS
    TypeOK
    CachesAgree
    CloseDelivers
PROPERTIES
    CachesConverge
    CloseReturns
CHECK_DEADLOCK FALSE
