SPECIFICATION Spec
CONSTANTS
    Snapshot = {n1, n2}
    NoSnapshot = NoSnapshot
    MaxAttempts = 2
    MaxFaults = 0
INVARIANTS
    PublishedWasApproved
