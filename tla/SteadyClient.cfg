SPECIFICATION Spec
CONSTANTS
    w1 = w1
    w2 = w2
    t1 = t1
    None = None
    Workers = {w1}
    Roles = {"vendor"}
    Devices = {t1}
    MaxAttempts = 2
    Lifetime = 1
    ApiLimit = 2
    OtpLimit = 1
    ApiWindow = 2
    OtpWindow = 2
    Limit <- Limits
    Window <- Windows
    MaxRequests = 3
    MaxFaults = 0
INVARIANT SteadyServed
