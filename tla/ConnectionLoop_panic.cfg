SPECIFICATION Spec
CONSTANTS
    NoUrl = NoUrl
    Panic = Panic
    Endpoints = {u1}
    Requests = {}
    Events = {}
    BufferSize = 1
    MaxCallers = 1
    MaxAttempt = 5
    NextDelay <- DefaultDelay
INVARIANTS NeverPanics
CHECK_DEADLOCK FALSE
