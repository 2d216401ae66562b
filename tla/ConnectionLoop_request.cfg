SPECIFICATION Spec
CONSTANTS
    NoUrl = NoUrl
    Panic = Panic
    Endpoints = {u1, u2}
    Requests = {r1}
    Events = {}
    BufferSize = 2
    MaxCallers = 1
    MaxAttempt = 3
    NextDelay <- SteepDelay
INVARIANTS TypeOK Answerable SentOnce StateIsTruthful PendingOwned FollowsEndpoint IInv
PROPERTIES FailuresArePaced ImplementsContract
SYMMETRY Interchangeable
CHECK_DEADLOCK FALSE
