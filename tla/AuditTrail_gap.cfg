\* One object, whose write may fail once; bodies that are read back unchanged.
CONSTANTS
    Trails = {t1}
    Bodies = {b1, b2}
    Reread <- SampleReread
    MaxEntries = 2
SPECIFICATION Spec
INVARIANTS Rewalkable
CHECK_DEADLOCK FALSE
