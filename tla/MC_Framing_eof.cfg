CONSTANTS
    ByteBits = 2
    RequestSizes <- MC_RequestSizes
    ResponseSizes <- MC_ResponseSizes
    MaxFrames = 3
SPECIFICATION Spec
INVARIANT CleanExitAtFrameBoundary
CHECK_DEADLOCK FALSE
