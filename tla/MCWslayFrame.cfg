CONSTANTS
    MaskKeys <- Keys
    Frames <- ClientAndLongFrames
    MaxFrames = 2
    GenmaskFails = TRUE
    NoFrame = NoFrame
    MaxSplit = 10
SPECIFICATION FairSpec
INVARIANT TypeOK
PROPERTIES StreamRefinement FramesArrive
