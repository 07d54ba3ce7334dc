SPECIFICATION Spec
CONSTANTS
    w1 = w1
    w2 = w2
    a1 = a1
    a2 = a2
    a3 = a3
    p1 = p1
    p2 = p2
    None = None
    Workers = {w1, w2}
    Ids = {a1, a2, a3}
    Products = {p1, p2}
    Payloads <- SomePayloads
    Prices <- SomePrices
    Coupons <- SomeCoupons
    Fee = 19
    TaxPercent = 5
    MaxRequests = 3
    MaxChanges = 1
SYMMETRY Symmetric
INVARIANTS DefaultsBounded CartAsSynced QuoteIsCharge BillAddsUp
PROPERTY AddressStaysGone
