SPECIFICATION Spec
CONSTANTS
    w1 = w1
    w2 = w2
    Segments <- MCSegments
    Paths <- MCPaths
    Contents <- MCContents
    MaxFile = 2
    Workers = {w1, w2}
    NoFile = NoFile
    Broken = Broken
    NoPolicy = NoPolicy
SYMMETRY WorkerSymmetry
INVARIANTS
    DenyOverrides
    InForceAfterReload
