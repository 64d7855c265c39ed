\* Two machines, two edits or presses, two failed requests, reads, writes, closed contexts or stops.
SPECIFICATION FairSpec
CONSTANTS
    c1 = c1
    c2 = c2
    m1 = m1
    m2 = m2
    Machines = {m1, m2}
    Contexts = {c1, c2}
    MachineOf <- OneEach
    Keys = {k1}
    MaxInputs = 2
    MaxFaults = 2
INVARIANTS
    TypeOK
    WishesAreSent
    QuietHostIsCurrent
PROPERTIES
    DiskFollowsAcceptance
    SyncSettles
CHECK_DEADLOCK FALSE
