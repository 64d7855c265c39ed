\* Two jobs, two overlapping ticks, two places; the human restarts no job.
SPECIFICATION Spec
CONSTANTS
    Jobs = {j1, j2}
    Locks = {l1, l2}
    Clash <- OwnTarget
    MaxJobs = 2
    None = None
    MaxConcurrent = 2
    TickSlots = {t1, t2}
    RunSlots = {1, 2}
    MaxSteps = 1
    MaxRetries = 0
    Commands = {"control", "cancel", "clear", "deny", "reload", "jobs run"}
SYMMETRY JobSymmetry
INVARIANTS
    TypeOK
    OneRunPerJob
    RunningIsDriven
PROPERTIES
    SettledStays
CHECK_DEADLOCK FALSE
