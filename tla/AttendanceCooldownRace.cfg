CONSTANTS
    Null = Null
    Employees = {e1}
    Workers = {w1, w2}
    Crons = {}
    Cooldown = 2
    MaxOpen = 4
    MinGap = 1
    MaxHandling = 1
    DayLength = 7
    LunchStart = 2
    LunchEnd = 4
    MaxTime = 3
    MaxCrashes = 0

SPECIFICATION Spec
SYMMETRY WorkerSymmetry

INVARIANT CooldownBetweenRegistrations
