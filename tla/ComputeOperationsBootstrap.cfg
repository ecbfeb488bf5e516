CONSTANTS
    s1 = s1
    s2 = s2
    elsewhere = None
    Sessions = {s1}
    Plain = {p1, p2}
    Background = {b1}
    SessionOf <- MCSessionOf
    Maintainers = {}
    Blocking = {}
    None = None
    Builds = {x}
    Probe = Probe
    Foreign = {}
    ReplaceEngine = {FALSE}
    CompletedLimit = 1
    MaxGen = 1
    MaxRuntime = 1
SPECIFICATION Spec
INVARIANT ResidualStateFlagged
CHECK_DEADLOCK FALSE
