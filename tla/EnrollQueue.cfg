CONSTANTS
    Null = Null
    Employees = {e1}
    Clerks = {c1, c2}
    Handlers = {h1}
    Kiosks = {k1}
    Operators = {o1}
    MaxQueue = 2
    MaxDeletes = 1

SPECIFICATION FairQueueSpec
CHECK_DEADLOCK FALSE
INVARIANT QueueInv

PROPERTIES
    DoneIsFinal
    DoneDeliversTemplate
    PendingIsServed
