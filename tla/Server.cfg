SPECIFICATION Spec
CONSTANTS
    p1 = p1
    Paths = {p1}
    MaxRequests = 4
    MaxKeys = 2
    Earlier <- LoginAndWrite
    NoRequest = NoRequest
    NoQuery = NoQuery
    NoSecret = NoSecret
    NoEntry = NoEntry
    Faults = {"crash"}
INVARIANTS
    TypeOK
    SecretsReadable
    AnsweredIsLogged
    FileFollowsStore
    QueryHonest
PROPERTIES
    ShutdownEnds
