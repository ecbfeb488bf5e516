CONSTANTS
    s1 = s1
    s2 = s2
    elsewhere = p3
    Sessions = {s1, s2}
    Plain = {p1, p2, p3}
    Background = {b1}
    SessionOf <- MCSessionOf
    Maintainers = {m1}
    Blocking = {m2}
    None = None
SPECIFICATION FairGateSpec
INVARIANTS ReadersExact GateExclusive ReservationExclusive
PROPERTY CallsReturn
