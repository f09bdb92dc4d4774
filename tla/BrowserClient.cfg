SPECIFICATION FairPageSpec
CONSTANTS
    Session = {s1, s2}
    Request = {q1, q2, q3}
    Worker = {w1, w2}
    Reader = {}
    Revision = {0, 1, 2, 3}
    Context = {c0}
    EmptyContext = c0
    Answer = {a1}
    NoWorker = NoWorker
    NoSession = NoSession
    Nothing = Nothing
INVARIANTS
    ShownAnswersFollowOn
    RefusedOnlyAfterLoss
PROPERTIES
    PostEnds
