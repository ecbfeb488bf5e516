CONSTANTS
    s1 = s1
    s2 = s2
    elsewhere = None
    Sessions = {s1}
    Plain = {p1}
    Background = {b1, b2}
    SessionOf <- MCSessionOf
    Maintainers = {m1}
    Blocking = {}
    None = None
    Builds = {x}
    Probe = Probe
    Foreign = {f1}
    ReplaceEngine = {FALSE}
    CompletedLimit = 1
    MaxGen = 1
    MaxRuntime = 1
SPECIFICATION Spec
INVARIANTS TerminalAfterRelease CompletedHonest  RuntimeHeld  CloseStopsCompute
PROPERTY ImplementsView
CHECK_DEADLOCK FALSE
