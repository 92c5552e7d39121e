\* One run with one SIGTERM, late logs, and up to two errors in teardown.
CONSTANTS
    Attempts = 2
    Rounds = 2
    Exports = 2
    Faults = 2
    InOrder = TRUE
    Indexes = {0, 1}
    Messages = {7}
    StreamLength = 6
    Dimensions = {helpful, follows, harmless}
    Values <- SampleValues
    Threshold = 70
    MinDimension = 50
SPECIFICATION Spec
INVARIANTS TypeOK CleanMeansGone LeftoverExplained NeverUnguarded OkMeansProved StreamIsFaithful LayersFailClosed
CHECK_DEADLOCK FALSE
