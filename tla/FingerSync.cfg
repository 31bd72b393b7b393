CONSTANTS
    None = None
    Employees = {e1, e2}
    Fingers = {f1, f2}
    Workers = {w1, w2}
    Touches = {t1}
    MaxOps = 3
    MaxRestarts = 1

SPECIFICATION FairSpec

INVARIANT IndInv

PROPERTIES
    CreditedToOwner
    CacheForgets
