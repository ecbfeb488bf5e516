CONSTANTS
    Calls = {c1, c2}
    Processes = {p1, p2}
    Builds = {b1, b2}
    MaxAttempts = 2
    MaxFailures = 1
    MaxOvertakes = 1
    None = None
    Dead = Dead
SPECIFICATION Spec
   
PROPERTIES  ReviewOnce
SYMMETRY Symmetry
CHECK_DEADLOCK FALSE
