SPECIFICATION FairSpec
CONSTANTS
    Users = {u1}
    Anonymous = anonymous
    Consumers = {c1}
    Owner <- OneOwner
    Channels = {a}
    Public = {}
    Requests = {r1, r2}
    Workers = {w1, w2}
    None = none
    SendSubscribe = FALSE
    AllowUnauthenticated = FALSE
    Failures = {"crash", "expire", "raise", "kill"}
    Leaving = {c1}
    Changing = {u1}
    MaxRechecks = 0
INVARIANTS TypeOK RequestsAccounted
PROPERTIES RepliesSpec QueuedAnswered CloseObeyed NeverAllowedNeverMember
