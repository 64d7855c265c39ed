\* Three jobs, a site and three of its pages, two places, ticks one at a time.
SPECIFICATION Spec
CONSTANTS
    Jobs = {j1, j2, j3}
    Locks = {l1, l2, l3, l4}
    Clash <- SiteAndPages
    MaxJobs = 3
    None = None
    MaxConcurrent = 2
    TickSlots = {t1}
    RunSlots = {1, 2}
    MaxSteps = 1
    MaxRetries = 0
    Commands = {"control", "reload"}
SYMMETRY JobAndPageSymmetry
INVARIANTS
    PageLocksSerialize
    WithinCapacity
PROPERTIES
    LockTableSpec
CHECK_DEADLOCK FALSE
