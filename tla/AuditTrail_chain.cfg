\* Two objects on one file, restarts, failed writes, one change after the fact, and a body
\* that is read back otherwise than it was hashed.
CONSTANTS
    Trails = {t1, t2}
    Bodies = {"9 then 10", "10 then 9", "b"}
    Reread <- SampleReread
    MaxEntries = 2
SPECIFICATION Spec
SYMMETRY Interchangeable
INVARIANTS TypeOK ChangesShow AnchorVouches NoFalseAlarm
CHECK_DEADLOCK FALSE
