\* Two machines, three edits, no fault.
SPECIFICATION Spec
CONSTANTS
    c1 = c1
    c2 = c2
    m1 = m1
    m2 = m2
    Machines = {m1, m2}
    Contexts = {c1, c2}
    MachineOf <- OneEach
    Keys = {k1}
    MaxInputs = 3
    MaxFaults = 0
PROPERTIES
    NewerWins
CHECK_DEADLOCK FALSE
