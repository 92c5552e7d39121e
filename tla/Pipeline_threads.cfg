\* Threads or processes that interleave between a load and its save; workers may stop for ever.
CONSTANTS
    Runs = {r1}
    Attempts = {a1, a2}
    Sweepers = {s1}
    Owners = {o1}
    NumPhases = 1
    MaxDuration = 0
    Grace = 0
    Horizon = 1
    Preemptive = TRUE
    Timely = FALSE
    None = None
SPECIFICATION FairSpec
INVARIANTS TypeOK ResumableCheckpoint
PROPERTIES NoRunHangs
