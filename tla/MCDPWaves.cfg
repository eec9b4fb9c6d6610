SPECIFICATION FairSpec
CONSTANTS
    f1 = f1
    f2 = f2
    NEngines = 2
    Fronts = {f1, f2}
    Period = 2
    Passes = 2
    Modes = {"abort", "wait", "keep"}
    Requests = {1, 2, 3}
    Home <- MCHome
    Budgets <- MCBudgets
CHECK_DEADLOCK FALSE
INVARIANTS
    Lockstep
    PauseHolds
PROPERTIES
    PauseCompletes
    RequestsServed
    KeptServed
    EnginesStop
