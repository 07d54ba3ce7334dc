SPECIFICATION Spec
CONSTANTS
    w1 = w1
    w2 = w2
    d1 = d1
    d2 = d2
    x1 = x1
    x2 = x2
    None = None
    Devices <- SomeDevices
    Workers = {w1, w2}
    Partners = {d1, d2}
    Positions = {x1, x2}
    MaxLogs = 6
SYMMETRY Symmetric
INVARIANTS OnlyWhatHappened EverybodyTold ScreenFollows
