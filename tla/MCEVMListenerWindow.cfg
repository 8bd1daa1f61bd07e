CONSTANTS
    Event <- MCEvent
    Undecodable <- MCUndecodable
    Seed = 1
    MaxBlock = 5
    BatchSize = 2
    MaxGap = 5
    ChanCap = 1
    MaxFaults = 0
SPECIFICATION FairSpec
INVARIANT NoMissedEvent
