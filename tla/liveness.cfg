SPECIFICATION FairSpec
CONSTANTS
    Jobs = {j1, j2}
    Locks = {l1}
    Clash <- SameTarget
    MaxJobs = 2
    None = None
    MaxConcurrent = 2
    TickSlots = {t1, t2}
    RunSlots = {1, 2}
    MaxSteps = 1
    MaxRetries = 1
    Commands = {"control"}
PROPERTIES
    RunsEnd
    QueuedJobsStart
CHECK_DEADLOCK FALSE
