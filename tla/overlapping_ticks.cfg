\* Four jobs, a site and two of its pages, two places, two ticks in flight.
SPECIFICATION Spec
CONSTANTS
    Jobs = {j1, j2, j3, j4}
    Locks = {l1, l2, l3}
    Clash <- SiteAndPages
    MaxJobs = 4
    None = None
    MaxConcurrent = 2
    TickSlots = {t1, t2}
    RunSlots = {1, 2, 3, 4}
    MaxSteps = 1
    MaxRetries = 0
    Commands = {"control", "reload"}
SYMMETRY JobSymmetry
INVARIANTS
    PageLocksSerialize
CHECK_DEADLOCK FALSE
