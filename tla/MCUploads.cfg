CONSTANTS
    Attempts = 2
    Migrations = 2
    MaxFaults = 2
    f1 = f1
    m1 = m1
    Media = {f1}
    Metadata = {m1}
    MediaOf <- MCMediaOf
    NoItem = NoItem
    Uploaders = {u1, u2}
    Tries = 2
    Size = 2
SPECIFICATION FairUploadSpec
INVARIANTS
    RunsOnCompleteStores
    OneUnfinishedPerFault
    UrlNamesWholeFile
    DegradedOnlyIfMock
PROPERTIES
    UndisturbedStartServes
