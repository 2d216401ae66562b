SPECIFICATION Spec
CONSTANTS
    NoUrl = NoUrl
    Panic = Panic
    Endpoints = {u1}
    Requests = {}
    Events = {e1}
    BufferSize = 1
    MaxCallers = 1
    MaxAttempt = 1
    NextDelay <- ConstantTestDelay
INVARIANTS OnlineIsUsable
CHECK_DEADLOCK FALSE
