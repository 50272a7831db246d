CONSTANTS
    TestBytes = {0, 127, 128, 143, 144, 159, 160, 191, 192, 193, 194, 223, 224, 225, 236, 237,
                 238, 239, 240, 241, 243, 244, 245}
    MaxInput = 4
SPECIFICATION Spec
INVARIANTS AcceptIffWellFormed RejectIffNoValidExtension
CHECK_DEADLOCK FALSE
