SPECIFICATION FairSpec
CONSTANTS
    BufferSize = 2
    MaxHandles = 3
    MaxFrames = 3
    MaxPongs = 1
INVARIANTS TypeOK SentInOrder NothingLost IInv
PROPERTIES CloseIsGraceful AcceptedIsSent CloseEnds DeadPeerDetected
CHECK_DEADLOCK FALSE
