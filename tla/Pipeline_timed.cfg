\* Phases last at most the budget: what the brakes and the sweeper do to a live worker.
CONSTANTS
    Runs = {r1}
    Attempts = {a1, a2}
    Sweepers = {s1}
    Owners = {o1}
    NumPhases = 3
    MaxDuration = 2
    Grace = 1
    Horizon = 5
    Preemptive = FALSE
    Timely = TRUE
    None = None
SPECIFICATION Spec
SYMMETRY Interchangeable
INVARIANTS BudgetHolds
PROPERTIES WorkingNotReaped SweeperSparesAlive
