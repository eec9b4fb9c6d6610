SPECIFICATION FairSpec
CONSTANTS
    f1 = f1
    f2 = f2
    NEngines = 2
    Fronts = {f1, f2}
    Period = 2
    Passes = 1
    Modes = {}
    Requests = {1, 2, 3}
    Home <- MCHome
    Budgets <- MCDropped
CHECK_DEADLOCK FALSE
PROPERTIES
    EnginesStart
