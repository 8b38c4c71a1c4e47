SPECIFICATION Spec
CONSTANTS
    s1 = s1
    w1 = w1
    w2 = w2
    Services = {s1}
    TotpServices = {s1}
    Workers = {w1, w2}
    NoRequest = NoRequest
    MaxKeys = 2
    MaxChallenges = 2
    MaxTotpLogins = 1
    Lifetime = 1
    StepLength = 1
    MaxTime = 2
    Counters = {0}
    Faults = {"read", "write", "crash"}
INVARIANTS
    TypeOK
    OneUse
    GrantJustified
    DenialJustified
    ExpiredPruned
CONSTRAINT SecondChallengeAlone
SYMMETRY WorkerSymmetry
