CONSTANTS
    Null = Null
    Employees = {e1}
    Workers = {w1}
    Crons = {c1}
    Cooldown = 1
    MaxOpen = 2
    MinGap = 1
    MaxHandling = 1
    DayLength = 5
    LunchStart = 2
    LunchEnd = 3
    MaxTime = 5
    MaxCrashes = 1

SPECIFICATION FairSpec

INVARIANTS
    IndInv
    OpenRowsBounded

PROPERTY AbandonedShiftIsFlagged
