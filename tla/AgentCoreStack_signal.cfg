\* The first SIGTERM comes late.
CONSTANTS
    Attempts = 1
    Rounds = 1
    Exports = 1
    Faults = 0
    InOrder = TRUE
    Indexes = {0}
    Messages = {7}
    StreamLength = 1
    Dimensions = {helpful}
    Values = {0, 100}
    Threshold = 70
    MinDimension = 50
SPECIFICATION Spec
INVARIANTS SigtermTearsDown
CHECK_DEADLOCK FALSE
