CONSTANTS
    Nil = Nil
    Sent = Sent
    N = 3
    Span = 3
    Pages <- PageSet
    PageSize = 1
    Limit = 1
    Skew = 1
    MaxWrites <- WritesOf
    MaxLosses = 1

SPECIFICATION FairPollSpec

INVARIANT PollInv

PROPERTY Settles
