CONSTANTS
    None = None
    b1 = b1
    b2 = b2
    m1 = m1
    m2 = m2
    p1 = p1
    p2 = p2
    Workers = {w1, w2}
    Trucks = {t1, t2}
    Plates = {p1, p2}
    Brands = {b1, b2}
    Models = {m1, m2}
    ModelBrand <- Brand
    Drivers = {d1}
    InitModels = {m1}
    InitTruck <- FirstTruck
    InitPhotos = 2
    Posts <- PostSet
    MaxOps = 3
    MaxEdits = 1

SPECIFICATION FairSpec
CHECK_DEADLOCK FALSE

INVARIANT IndInv

PROPERTIES
    CoverKept
    ReclosedByAnother
    DriverChangeAnnounced
