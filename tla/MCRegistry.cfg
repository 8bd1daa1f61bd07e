CONSTANTS
    a = a
    b = b
    c = c
    w1 = w1
    w2 = w2
    r1 = r1
    Hash <- MCHash
    NoHash = NoHash
    NoRow = NoRow
    MediaType <- VideoTypes
    Split <- MCHash
    Declared <- NoneDeclared
    Sim <- MCSim
    Points <- MCPoints
    Limit = 1
    Workers <- MCWorkers
    Clients <- MCClients
    MaxFaults = 1
SPECIFICATION Spec
INVARIANTS
    RowFirst
    CacheCoherent
    IndexedOncePerDelivery
    UnlinkedOnlyIfConcurrent
PROPERTIES
    ParentStoredFirst
