SPECIFICATION Spec
CONSTANTS
    p1 = p1
    w1 = w1
    w2 = w2
    w3 = w3
    a = a
    b = b
    Paths = {p1}
    Values = {a, b}
    NoValue = NoValue
    NoRequest = NoRequest
    Workers = {w1, w2}
    Writers <- AllWrite
    Window = 2
    MaxVer = 3
    Faults = {}
PROPERTY CommittedImmutable
