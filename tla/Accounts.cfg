CONSTANTS
    None = None
    u1 = u1
    u2 = u2
    n1 = n1
    n2 = n2
    n3 = n3
    n4 = n4
    e1 = e1
    e2 = e2
    e3 = e3
    c1 = c1
    c2 = c2
    c3 = c3
    Workers = {w1, w2}
    Users = {u1, u2, u3, u4}
    Superusers = {}
    Names = {n1, n2, n3, n4}
    Emails = {e1, e2, e3}
    Cpfs = {c1, c2, c3}
    InitUsers <- First
    InitProfiles <- FirstProfiles
    InitMails <- FirstMails
    Signups <- SignupSet
    MaxOps = 3

SPECIFICATION Spec
CHECK_DEADLOCK FALSE
SYMMETRY Symmetry

INVARIANTS
    IndInv
    SomeMaster
    EveryChangeLogged

PROPERTY OwnColumnOnly
