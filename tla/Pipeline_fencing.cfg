\* A run, its retries and the sweeper, a load and its save never separated.
CONSTANTS
    Runs = {r1}
    Attempts = {a1, a2}
    Sweepers = {s1}
    Owners = {o1, o2}
    NumPhases = 2
    MaxDuration = 0
    Grace = 0
    Horizon = 1
    Preemptive = FALSE
    Timely = FALSE
    None = None
SPECIFICATION Spec
SYMMETRY Interchangeable
INVARIANTS TrailMatchesStore
PROPERTIES ReapedWorkerStops FreshNeverOverwrites RetryKeepsProgress ImplementsLifecycle
