CONSTANTS
    a = a
    b = b
    c = c
    w1 = w1
    w2 = w2
    r1 = r1
    Hash <- MCHash
    NoHash = NoHash
    NoRow = NoRow
    MediaType <- TextTypes
    Split <- NotC
    Declared <- ChainDeclared
    Sim <- MCSim
    Points <- MCPoints
    Limit = 1
    Workers <- MCOneWorker
    Clients <- MCClients
    MaxFaults = 2
SPECIFICATION FairSpec
INVARIANTS
    CycleOnlyIfDeclared
    FamilyComplete
PROPERTIES
    EventuallyExact
