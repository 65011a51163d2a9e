SPECIFICATION Spec
CONSTANTS
    Messages = {p1, x1}
    Progress = {p1}
    Verbose = {}
    Lookalikes = {x1}
    Asides = {}
    Factory = "batch"
    Util <- Utils
    NoPayload = nopayload
    MaxUsed = 4
    MaxSavepoints = 2
    SendMayFail = FALSE
CHECK_DEADLOCK FALSE
INVARIANTS UndoneNotSent
