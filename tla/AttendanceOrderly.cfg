CONSTANTS
    Null = Null
    Employees = {e1}
    Workers = {w1, w2}
    Crons = {c1}
    Cooldown = 2
    MaxOpen = 4
    MinGap = 1
    MaxHandling = 1
    DayLength = 7
    LunchStart = 2
    LunchEnd = 4
    MaxTime = 7
    MaxCrashes = 1

SPECIFICATION OrderlySpec
SYMMETRY WorkerSymmetry

INVARIANT LogAndTableAgree

PROPERTIES
    ImplementsPunchClock
    ClosedShiftIsFinal
    PendingUntilReviewed
