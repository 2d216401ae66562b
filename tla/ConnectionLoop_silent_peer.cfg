SPECIFICATION SilentPeerSpec
CONSTANTS
    NoUrl = NoUrl
    Panic = Panic
    Endpoints = {u1}
    Requests = {}
    Events = {}
    BufferSize = 1
    MaxCallers = 1
    MaxAttempt = 1
    NextDelay <- ConstantTestDelay
PROPERTIES ShutdownTerminates
CHECK_DEADLOCK FALSE
