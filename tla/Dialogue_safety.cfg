SPECIFICATION Spec
CONSTANTS
    s1 = s1
    s2 = s2
    d1 = d1
    d2 = d2
    p1 = p1
    p2 = p2
    f1 = f1
    f2 = f2
    f3 = f3
    old = old
    new = new
    NoValue = NoValue
    System <- MCSystem
    Department <- MCDepartment
    Position <- MCPosition
    Profile <- MCProfile
    Version <- MCVersion
    Content <- MCContent
    Utterance <- MCUtterance
    AccessLimit = 1
INVARIANTS
    PhaseMatchesQuestion
    FactsComeFromThePinnedCatalog
    AccessFollowsAProfile
PROPERTIES
    ContextChangesOnlyWithRevision
