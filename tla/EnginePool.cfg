CONSTANTS
    s1 = s1
    s2 = s2
    s3 = s3
    None = None
    Threads = {t1, t2}
    Sessions = {s1, s2, s3}
    KeyOf <- MCKeyOf
    Collectors = {g1}
    Engines = {e1, e2}
    MaxSlots = 2
    MaxPool = 1
    MaxExtras = 1
    Errors = {"PobEngineError", "OSError"}
    CloseRaises = {TRUE}
SPECIFICATION Spec
INVARIANTS PoolSound PooledEngineOpen 
PROPERTY LiveSessionKeepsEngine
CHECK_DEADLOCK FALSE
