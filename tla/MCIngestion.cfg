CONSTANTS
    w1 = w1
    w2 = w2
    Workers <- MCWorkers
    NoEvent = NoEvent
    Event <- MCEvent
    Undecodable <- MCUndecodable
    Seed = 1
    MaxBlock = 4
    BatchSize = 1
    MaxGap = 2
    ChanCap = 1
    MaxFaults = 1
    MaxErrors = 1
SPECIFICATION FairIngestSpec
INVARIANTS
    LossPerFault
PROPERTIES
    DeliverySpec
    RegisteredUnlessFault
