\* Threads that interleave between a load and its save.
CONSTANTS
    Runs = {r1}
    Attempts = {a1, a2}
    Sweepers = {s1}
    Owners = {o1}
    NumPhases = 2
    MaxDuration = 1
    Grace = 1
    Horizon = 3
    Preemptive = TRUE
    Timely = FALSE
    None = None
SPECIFICATION Spec
SYMMETRY Interchangeable
PROPERTIES ReapedWorkerStops
