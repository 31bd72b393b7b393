CONSTANTS
    None = None
    Threads = {t1, t2}
    Addresses = {a1}
    Accounts = {c1}
    Devices = {d1}
    Builds = {b1}
    MaxFailures = 2
    Window = 1
    Block = 2
    MaxFailuresAccount = 2
    WindowAccount = 2
    BlockAccount = 1
    MaxOps = 4
    MaxTime = 3
    MaxRestarts = 1

SPECIFICATION Spec
CHECK_DEADLOCK FALSE

INVARIANT IndInv

PROPERTIES
    BlockIsEarned
    BlockHolds
    RevokedStays
