SPECIFICATION FairSpec
CONSTANTS
    w1 = w1
    w2 = w2
    t1 = t1
    None = None
    Workers = {w1, w2}
    Roles = {"vendor"}
    Devices = {t1}
    MaxAttempts = 2
    Lifetime = 2
    ApiLimit = 2
    OtpLimit = 1
    ApiWindow = 1
    OtpWindow = 2
    Limit <- Limits
    Window <- Windows
    MaxRequests = 3
    MaxFaults = 1
INVARIANTS OpenBounded CodeUsesBounded PasswordByReset AccountsWhole GuessesBounded LimitKept DeviceKept
PROPERTY LockoutEnds
