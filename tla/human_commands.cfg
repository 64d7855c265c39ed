SPECIFICATION Spec
CONSTANTS
    Jobs = {j1, j2}
    Locks = {l1}
    Clash <- SameTarget
    MaxJobs = 1
    None = None
    MaxConcurrent = 1
    TickSlots = {t1}
    RunSlots = {1}
    MaxSteps = 1
    MaxRetries = 0
    Commands = {"control", "pause", "resume", "continue", "focus"}
SYMMETRY JobSymmetry
INVARIANTS
    StoreInvariant
PROPERTIES
    HumanStopSticks
CHECK_DEADLOCK FALSE
