SPECIFICATION Spec
CONSTANTS
    Text <- MCText
    Normal <- MCNormal
    KnownAliases <- MCKnownAliases
    NoNumber = NoNumber
    NumberOf <- MCNumberOf
    Limit = 2
    Snapshot = {1, 2}
    NoSnapshot = NoSnapshot
    Unloaded = Unloaded
    Content <- MCContent
    Query <- MCQuery
    AccessLimit = 2
VIEW MCView
INVARIANTS
    ImportIsExact
    AnswerFollowsV1
    OffersLeadOn
