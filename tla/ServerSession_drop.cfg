SPECIFICATION FairSpec
CONSTANTS
    BufferSize = 2
    MaxHandles = 2
    MaxFrames = 2
    MaxPongs = 1
PROPERTIES LastDropEnds
CHECK_DEADLOCK FALSE
