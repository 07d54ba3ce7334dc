SPECIFICATION Spec
CONSTANTS
    o1 = o1
    w1 = w1
    w2 = w2
    p1 = p1
    p2 = p2
    d1 = d1
    d2 = d2
    Orders = {o1}
    Partners = {d1, d2}
    Bidders = {d1, d2}
    None = None
    Workers = {w1, w2}
    Payments = {}
    MaxRestocks = 0
    MaxFaults = 1
    ZeroAmount <- NoZeroAmount
SYMMETRY Interchangeable
INVARIANT BidderCarries
PROPERTY PartnerKept
