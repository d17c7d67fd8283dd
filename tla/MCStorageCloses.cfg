SPECIFICATION LiveSpec
CONSTANTS
    Keys = {k1, k2}
    Values = {v1}
    NoValue = undefined
    MaxChanges = 3
    MaxErrors = 1
    MaxEnds = 1
PROPERTY CloseClosesDatabase
CHECK_DEADLOCK FALSE
