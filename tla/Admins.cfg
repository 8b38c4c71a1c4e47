SPECIFICATION Spec
CONSTANTS
    w1 = w1
    w2 = w2
    MaxNames = 2
    MaxTokens = 3
    Workers = {w1, w2}
    NoRequest = NoRequest
    Faults = {"read", "write", "crash"}
SYMMETRY WorkerSymmetry
INVARIANTS
    AdmissionJustified
    DenialJustified
    BootstrapIsFirst
