CONSTANTS
    MaxApps = 2
    MaxAttempts = 1
    Users = {alice, bob}
    System = System
    Filters <- MCFilters
    Dates = {1}
    TicksPerSecond = 2
    SecondsPerDay = 2
    FourDigits = 3
    MaxTime = 3
    Width = 4
    MaxDate = 5
    Ages = {0, 1, 7, 12, 15}
SPECIFICATION Spec
SYMMETRY UserSymmetry
INVARIANTS OwnSessionsOnly ToldIsListed
PROPERTIES TableSpec RowsConfined PruneByAge
CHECK_DEADLOCK FALSE
