SPECIFICATION Spec
CONSTANTS
    Users = {u1}
    Anonymous = anonymous
    Consumers = {c1}
    Owner <- OneOwner
    Channels = {a1, a2, a3}
    Public = {}
    Requests = {r1, r2, r3}
    Workers = {w1}
    None = none
    SendSubscribe = FALSE
    AllowUnauthenticated = FALSE
    Failures = {}
    Leaving = {}
    Changing = {}
    MaxRechecks = 1
CHECK_DEADLOCK FALSE
INVARIANTS LeftIsRun
