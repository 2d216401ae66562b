SPECIFICATION ResponsiveSpec
CONSTANTS
    NoUrl = NoUrl
    Panic = Panic
    Endpoints = {u1}
    Requests = {r1}
    Events = {}
    BufferSize = 1
    MaxCallers = 1
    MaxAttempt = 1
    NextDelay <- LinearTestDelay
PROPERTIES ShutdownTerminates RequestTerminates
CHECK_DEADLOCK FALSE
