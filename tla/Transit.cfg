SPECIFICATION Spec
CONSTANTS
    k1 = k1
    k2 = k2
    w1 = w1
    w2 = w2
    Names = {k1, k2}
    Workers = {w1, w2}
    Managers <- OneEach
    MaxKeys = 4
    Faults = {"read", "write", "crash"}
INVARIANTS
    CurrentUsable
    IssuedDecryptable
    RotationSticks
PROPERTIES
    AbstractSpec
