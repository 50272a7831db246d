CONSTANTS
    MaskKeys <- Keys
    Frames <- MixedFrames
    MaxFrames = 2
    GenmaskFails = FALSE
    NoFrame = NoFrame
    MaxSplit = 10
SPECIFICATION Spec
PROPERTY StreamRefinement
