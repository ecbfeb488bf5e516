SPECIFICATION Spec
CONSTANTS
    Calls = {c1, c2}
    Reviews = {a}
    r1 = r1
    r2 = r2
    h1 = h1
    Runs = {r1, r2}
    Characters = {h1}
    LastCase = 2
    RunOf <- TwoRuns
    CharacterOf <- OneCharacter
    Workers = 1
    MaxLeases = 2
    MaxFailures = 1
    None = None
    Skeleton = Skeleton
INVARIANTS QueueSound ReservationKept
PROPERTIES ReservationOfRun
SYMMETRY Symmetry
CHECK_DEADLOCK FALSE
