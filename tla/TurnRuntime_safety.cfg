SPECIFICATION Spec
CONSTANTS
    Session = {s1}
    Request = {q1, q2}
    Worker = {w1, w2}
    Reader = {r1}
    Revision = {0, 1}
    Context = {c0, c1}
    EmptyContext = c0
    Answer = {a1, a2}
    NoWorker = NoWorker
SYMMETRY Symmetry
INVARIANTS
    TypeOK
    TurnsFormChain
    RepliesAreTheStoredTurn
    CommitCannotCollide
    ViewIsExplained
PROPERTIES
    HistoryGrowsByTurns
    IsTurnLedger
