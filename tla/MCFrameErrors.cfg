CONSTANTS
    MaskKeys <- Keys
    Frames <- ClientFrames
    MaxFrames = 0
    GenmaskFails = FALSE
    NoFrame = NoFrame
    MaxSplit = 10
SPECIFICATION PeerSpec
INVARIANT ProtoIffMalformed
CHECK_DEADLOCK FALSE
