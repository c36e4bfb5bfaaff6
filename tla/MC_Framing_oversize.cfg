CONSTANTS
    ByteBits = 2
    RequestSizes <- MC_RequestSizes
    ResponseSizes <- MC_OversizeResponses
    MaxFrames = 3
SPECIFICATION Spec
INVARIANT HostDecodesResponses
CHECK_DEADLOCK FALSE
