SPECIFICATION Spec
CONSTANTS
    t1 = t1
    t2 = t2
    h1 = h1
    h2 = h2
    Bindings <- ThreeAgents
    Sources = {s1}
    a = a
    b = b
    Texts = {a, b}
    Seed <- SeedEvents
    Servers = {v1, v2}
    None = None
    CaseLimit = 2
    LogLimit = 1
    MaxEvents = 5
    MaxTorn = 1
INVARIANTS CampaignSound CreatorBlind AppliedOnce  SupersessionEnds
SYMMETRY Symmetry
CHECK_DEADLOCK FALSE
