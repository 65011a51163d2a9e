SPECIFICATION FairSpec
CONSTANTS
    Frames = {f1}
    Contexts = {x}
    Workers = {w1}
    None = none
    Protected = {f1}
    Atomic = {f1}
    Unregistered = {f1}
    Failures = {}
    Changes = {}
CHECK_DEADLOCK FALSE
PROPERTIES ErrorsReturned
