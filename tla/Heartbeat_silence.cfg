SPECIFICATION Spec
CONSTANTS
    Interval <- Default
    Timeout <- DefaultWait
    Latency = 0
    Chatty = {}
    MaxWire = 2
INVARIANTS OnlyDeadGivenUp
CHECK_DEADLOCK FALSE
