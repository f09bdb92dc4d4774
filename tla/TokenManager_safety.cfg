SPECIFICATION Spec
CONSTANTS
    Thread = {t1, t2, t3}
    NoThread = NoThread
    Deadline = 2
    Margin = 2
    Grace = 2
    Guess = 5
    Lifetime = {1, 2, 4}
    MaxTime = 5
SYMMETRY Symmetry
INVARIANTS
    TokenIsValid
    OneRefreshServesAll
