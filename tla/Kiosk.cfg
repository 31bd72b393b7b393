CONSTANTS
    Samples = 2
    MayShutDown = TRUE
    MaxRequests = 2
    MaxPresses = 2
    MaxUnplugs = 1
    MaxJoinTimeouts = 0

SPECIFICATION FairSpec
CHECK_DEADLOCK FALSE

INVARIANT IndInv

PROPERTIES
    ListeningResumes
    ShutdownEnds
    AwaitedTouchIsNoticed
