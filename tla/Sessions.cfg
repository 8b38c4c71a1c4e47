SPECIFICATION Spec
CONSTANTS
    w1 = w1
    w2 = w2
    Workers = {w1, w2}
    MaxTokens = 2
    TTL = 2
    Second = 2
    MaxTime = 4
    Faults = {"read", "write", "crash"}
SYMMETRY WorkerSymmetry
INVARIANTS
    AcceptanceJustified
    DenialJustified
PROPERTIES
    AbstractSpec
CHECK_DEADLOCK FALSE
