CONSTANTS
    Event <- MCEvent
    Undecodable <- MCUndecodable
    Seed = 1
    MaxBlock = 5
    BatchSize = 2
    MaxGap = 3
    ChanCap = 1
    MaxFaults = 3
SPECIFICATION FairSpec
INVARIANTS
    TypeOK
    CheckpointMined
    Accounted
    OneDeliveryPerFault
PROPERTIES
    CheckpointMonotone
    SentInChainOrder
    EventuallyAccounted
    EventuallyLive
