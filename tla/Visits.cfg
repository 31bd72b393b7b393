CONSTANTS
    None = None
    p1 = p1
    p2 = p2
    n1 = n1
    n2 = n2
    f1 = f1
    f2 = f2
    c1 = c1
    c2 = c2
    c3 = c3
    h1 = h1
    h2 = h2
    Workers = {w1, w2}
    People = {p1, p2, p3, p4}
    Visitings = {v1, v2}
    Names = {n1, n2}
    Phones = {f1, f2}
    Cpfs = {c1, c2, c3}
    Number <- Digits
    Photos = {h1, h2}
    InitPeople <- Known
    EmployeePosts <- EmployeePostSet
    VisitorPosts <- VisitorPostSet
    Day = 3
    Offset = 1
    MaxOps = 3
    MaxTime = 3

SPECIFICATION Spec
CHECK_DEADLOCK FALSE
SYMMETRY Symmetry

INVARIANTS
    IndInv
    HistoryInOrder

PROPERTIES
    TwinsOnlyByRace
    OverwrittenOnlyByRace
