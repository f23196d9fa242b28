SPECIFICATION FairSpec
CONSTANTS
    Fields = {f1, f2, f3}
    Wanted = {f1, f2}
    MaxValue = 2
    MaxQueue = 3
    MaxTroubles = 2
INVARIANTS
    UpToDate
    NothingFromBefore
PROPERTIES
    LossReported
    Reconnects
