SPECIFICATION Spec
CONSTANTS
    u1 = u1
    u2 = u2
    w1 = w1
    w2 = w2
    w3 = w3
    Names = {u1}
    Passwords = {pw1, pw2}
    Policies = {pol1, pol2}
    NoUser = NoUser
    NoRequest = NoRequest
    Workers = {w1, w2}
    Managers <- OneManager
    Faults = {"read", "write", "crash"}
INVARIANTS
    PromiseKept
    LoginHonest
PROPERTIES
    AbstractSpec
