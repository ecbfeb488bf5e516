CONSTANTS
    c1 = c1
    c2 = c2
    c3 = c3
    p1 = p1
    p2 = p2
    Calls = {c1, c2, c3}
    Processes = {p1, p2}
    ProcessOf <- TwoAndOne
    RefreshAfter = 2
    RejectAfter = 3
    MinForce = 1
    MaxTime = 3
    MaxVersion = 2
    MaxRestarts = 1
    None = None
SPECIFICATION Spec
INVARIANTS CacheSound AnswerHonest
SYMMETRY Symmetry
CHECK_DEADLOCK FALSE
