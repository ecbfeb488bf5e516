CONSTANTS
    s1 = s1
    s2 = s2
    elsewhere = None
    Sessions = {s1}
    Plain = {p1, p2}
    Background = {b1}
    SessionOf <- MCSessionOf
    Maintainers = {m1}
    Blocking = {}
    None = None
    Builds = {x}
    Probe = Probe
    Foreign = {}
    ReplaceEngine = {TRUE, FALSE}
    CompletedLimit = 1
    MaxGen = 1
    MaxRuntime = 1
SPECIFICATION FairSpec
PROPERTIES OperationsFinish CloseReturns
CHECK_DEADLOCK FALSE
