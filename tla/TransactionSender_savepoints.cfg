SPECIFICATION Spec
CONSTANTS
    Messages = {p1, p2, p3, v1, x1, i1, i2}
    Progress = {p1, p2, p3, v1}
    Verbose = {v1}
    Lookalikes = {x1}
    Asides = {i1, i2}
    Factory = "batch2"
    Util <- Utils
    NoPayload = nopayload
    MaxUsed = 4
    MaxSavepoints = 2
    SendMayFail = TRUE
CHECK_DEADLOCK FALSE
INVARIANTS TypeOK SentOnce NothingForgotten BatchesSound BatchesReadable InternalKept
PROPERTIES KeyOrderKept OutboxSpec
SYMMETRY Alike
