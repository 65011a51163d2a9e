SPECIFICATION FairSpec
CONSTANTS
    Users = {u1}
    Anonymous = anonymous
    Consumers = {c1}
    Owner <- OneOwner
    Channels = {a}
    Public = {}
    Requests = {r1, r2}
    Workers = {w1}
    None = none
    SendSubscribe = FALSE
    AllowUnauthenticated = FALSE
    Failures = {}
    Leaving = {c1}
    Changing = {u1}
    MaxRechecks = 1
INVARIANTS MembershipKnown LeftIsRun
PROPERTIES RecheckEffective
