CONSTANTS
    c1 = c1
    c2 = c2
    c3 = c3
    e1 = e1
    e2 = e2
    Updaters = {u1, u2}
    MaxRelease = 3
    CorpusOf <- MCCorpusOf
    EngineOf <- Upgrade
    Absent = Absent
    MaxFailures = 1
    MaxCrashes = 1
    MaxManual = 1
SPECIFICATION Spec
INVARIANTS InstallSound RollbackExact
 
CHECK_DEADLOCK FALSE
