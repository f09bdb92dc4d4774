SPECIFICATION FairSpec
CONSTANTS
    Snapshot = {n1, n2}
    NoSnapshot = NoSnapshot
    MaxAttempts = 2
    MaxFaults = 2
INVARIANTS
    NothingUnprovenRuns
    QuietPublicationIsApproved
PROPERTIES
    NewerSchemaIsLeftAlone
    ActivationEnds
