SPECIFICATION Spec
CONSTANTS
    Interval <- Eager
    Timeout <- EagerWait
    Latency = 2
    Chatty = {"server"}
    MaxWire = 4
INVARIANTS TypeOK DetectedInTime NoFalseDeath IInv
CHECK_DEADLOCK FALSE
