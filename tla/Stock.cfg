SPECIFICATION FairSpec
CONSTANTS
    a = a
    b = b
    w1 = w1
    w2 = w2
    Store = Store
    None = None
    Products = {a, b}
    Workers = {w1, w2}
    Carts <- MixedCarts
    Counts = {0, 2}
    Starts <- SomeStarts
    MaxOrders = 2
    MaxReturns = 1
    MaxRequests = 4
    MaxPosts = 1
    MaxPuts = 1
    MaxDeletes = 1
    MaxFaults = 1
    Limit <- Limits
INVARIANTS TypeOK HeldIsCurrent SoldOutHidden StockAddsUp
PROPERTIES SaleIsExact DeletedStays EveryoneAnswered
