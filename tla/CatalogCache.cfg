SPECIFICATION FairSpec
CONSTANTS
    Version = {v1, v2}
    Document = {d1}
    NoVersion = NoVersion
    Refresher = {t1, t2}
    Caller = {c1}
    NoThread = NoThread
    MaxFailures = 2
INVARIANTS
    StatusIsTruthful
    SingleFlight
PROPERTIES
    LastGoodIsKept
    WaitersWake
    CacheCatchesUp
