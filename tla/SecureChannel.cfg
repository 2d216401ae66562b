SPECIFICATION FairSpec
CONSTANTS
    LenBytes = 2
    LenRange = 8
    MaxChunk = 4
    MaxBytes = 6
    Protocol = "app 1"
    Protocols = {"app 1", "app 2"}
    Sizes <- FrameSizes
    Window <- OneSided
    MaxFrames = 2
    MaxFaults = 1
INVARIANTS TypeOK Delivered OnlineIsAgreed NoSpuriousEnd IInv
PROPERTIES  BrokenEnds
CHECK_DEADLOCK FALSE
