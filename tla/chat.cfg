CONSTANTS
    p1 = p1
    f1 = f1
    None = None
    Panel = Panel
    Main = Main
    Projects = {p1}
    Folders = {f1}
    Stored <- SomeChats
    MaxSessions = 3
    MaxTurns = 1
    Budgets <- SomeBudgets
    MaxPulls = 2
SPECIFICATION SomeSpec
INVARIANTS
    TypeOK
    TreeIsSound
    Lockstep
PROPERTIES
    InStepKeepsAll
CHECK_DEADLOCK FALSE
