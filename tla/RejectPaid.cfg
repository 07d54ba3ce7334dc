SPECIFICATION Spec
CONSTANTS
    o1 = o1
    w1 = w1
    w2 = w2
    p1 = p1
    p2 = p2
    d1 = d1
    d2 = d2
    Orders = {o1}
    Partners = {d1}
    Bidders = {}
    None = None
    Workers = {w1}
    Payments = {p1}
    MaxRestocks = 1
    MaxFaults = 0
    ZeroAmount <- NoZeroAmount
PROPERTY CancelledIsRefunded
