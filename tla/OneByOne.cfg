SPECIFICATION Spec
CONSTANTS
    o1 = o1
    w1 = w1
    w2 = w2
    p1 = p1
    p2 = p2
    d1 = d1
    d2 = d2
    Orders = {o1}
    Partners = {d1, d2}
    Bidders = {d1, d2}
    None = None
    Workers = {w1}
    Payments = {p1, p2}
    MaxRestocks = 2
    MaxFaults = 0
    ZeroAmount <- FreeDelivery
INVARIANTS OnceEach DeliveredIsSettled CaptureSticks BidsSettled
PROPERTY StatusFollowsTable
