SPECIFICATION Spec
CONSTANTS
    Users = {u1, u2}
    Anonymous = anonymous
    Consumers = {c1}
    Owner <- OneOwner
    Channels = {a1, a2}
    Public = {a2}
    Requests = {r1, r2, r3}
    Workers = {w1}
    None = none
    SendSubscribe = TRUE
    AllowUnauthenticated = TRUE
    Failures = {}
    Leaving = {}
    Changing = {}
    MaxRechecks = 1
SYMMETRY Alike
CHECK_DEADLOCK FALSE
INVARIANTS PrivateUserChannel AnonymousInPublicOnly
