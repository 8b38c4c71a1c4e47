SPECIFICATION ClientSpec
CONSTANTS
    c1 = c1
    app = app
    Clients = {c1}
    MaxRequests = 3
    Policies = {app}
    RuleSets <- MCRuleSets
    NoPolicy = NoPolicy
    NoRequest = NoRequest
    NoAnswer = NoAnswer
    NoResult = NoResult
    Failures = {"store", "network"}
INVARIANTS
    ClientTypeOK
    ReadsAreReal
PROPERTIES
    ServedIsPermitted
    TokenLostByRefusal
