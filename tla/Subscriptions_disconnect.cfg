SPECIFICATION Spec
CONSTANTS
    Users = {u1}
    Anonymous = anonymous
    Consumers = {c1}
    Owner <- OneOwner
    Channels = {}
    Public = {}
    Requests = {r1}
    Workers = {w1}
    None = none
    SendSubscribe = TRUE
    AllowUnauthenticated = FALSE
    Failures = {}
    Leaving = {c1}
    Changing = {}
    MaxRechecks = 0
CHECK_DEADLOCK FALSE
INVARIANTS DisconnectLeaves
